---- MODULE Spec2Model ----
(***************************************************************************)
(* Transcription pipelines of the mini-projects repository.               *)
(*                                                                         *)
(* Part I  : youtube-transcriber, youtube_transcriber/transcriber.py       *)
(*           (Transcriber.transcribe_video / transcribe_all and helpers).  *)
(* Part II : shark-tank scraper, scraper/transcriber.py                    *)
(*           (Transcriber.transcribe_all / transcribe_batch_whisper /      *)
(*           _save_progress).                                              *)
(*                                                                         *)
(* A video is identified by its position in the list handed to the batch   *)
(* (identifiers are unique).  The file system is modelled as two           *)
(* directories, functions from the names that exist to their content.      *)
(* Remote operations (caption provider, yt-dlp subprocess, Whisper API)    *)
(* answer nondeterministically at the step that waits for them.            *)
(***************************************************************************)
EXTENDS Integers, Sequences, FiniteSets, TLC

\* ------------------------------------------------------------------ bounds
NumVideos == 3
MaxWorkers == 2
MaxRecords == 2
MaxSegments == 2
MaxUses == 2

Videos == 1..NumVideos
\* max_workers as the callers pass it: a pool of one thread (the items of a
\* pass run one after the other) or the largest pool.
WorkerCounts == {1, MaxWorkers}

\* The threads of a pool of the largest size.
Workers == 1..MaxWorkers

\* ------------------------------------------------------- program constants
MAX_FILE_SIZE_MB == 25

\* Sizes (MB) a downloaded audio file may have: at the ceiling and above it.
AudioSizes == {MAX_FILE_SIZE_MB, MAX_FILE_SIZE_MB + 1}

\* ------------------------------------------------------------- data model
\* models.Transcript, reduced to the fields that tell transcripts apart.
Transcript(v, src) == [video_id |-> v, source |-> src]

\* Python's None where a Transcript is expected.
NoTranscript == [video_id |-> 0, source |-> "None"]

\* A transcript file opened with mode "w" whose json.dump has not finished.
TruncatedJson == [video_id |-> 0, source |-> "truncated"]

\* models.TranscriptResult
TranscriptResult(v, t, s, e, nw) ==
    [video |-> v, transcript |-> t, success |-> s, error |-> e, needs_whisper |-> nw]

NoResult == TranscriptResult(0, NoTranscript, FALSE, "None", FALSE)

\* What the caption provider can answer for a video.
CaptionAnswers == {"track", "NoTranscriptFound", "TranscriptsDisabled",
                   "VideoUnavailable", "Exception"}

\* The answers a video has received so far: captions "track" or "absent",
\* download "ok" or "failed", speech-to-text "response" or "Exception".
NoAnswers == [captions |-> "None", download |-> "None", stt |-> "None"]

\* The dict _save_progress builds and dumps.
Progress(count, ids, failed) ==
    [completed_count |-> count, completed_ids |-> ids, failed |-> failed]

NoProgress == Progress(0, <<>>, <<>>)

\* What a per-item extraction call returned: [returned |-> TRUE, value |-> list],
\* or that it has not returned.
Returned(list) == [returned |-> TRUE, value |-> list]
NotReturned == [returned |-> FALSE, value |-> <<>>]

\* What the yt-dlp subprocess can do.
DownloadAnswers == {"ok", "nonzero_exit", "TimeoutExpired", "no_file"}

VARIABLES
    transcriptsDir,   \* transcripts/{video_id}.json : existing name -> content
    audioDir,         \* audio/{video_id}.mp3        : existing name -> size in MB
    mode,             \* which public method was called: "none" | "all" | "single"
    use_whisper,      \* argument of transcribe_all
    start_from,       \* argument of transcribe_all
    max_workers,      \* argument of transcribe_all
    pc,               \* position of the calling thread
    i,                \* loop index of the first pass (into videos_to_process)
    curVideo,         \* video of the running transcribe_video call
    tvUseWhisper,     \* use_whisper argument of the running transcribe_video call
    cur,              \* transcript local of transcribe_video
    ret,              \* value returned by transcribe_video
    results,          \* transcribe_all: results
    needs_whisper,    \* transcribe_all: needs_whisper (videos, in order)
    audio_files,      \* transcribe_all: audio_files (videos, in insertion order)
    dlTask,           \* download futures: video -> state
    dlRet,            \* download futures: video -> TRUE when a path was returned
    wTask,            \* transcribe_with_whisper calls: video -> state
    wCur,             \* transcript local of transcribe_with_whisper
    wRet,             \* value returned by transcribe_with_whisper
    capCalls,         \* caption-provider requests issued, per video
    dlCalls,          \* yt-dlp subprocesses launched, per video
    sttCalls,         \* Whisper requests sent, per video
    answers,          \* what each remote operation answered, per video
    lastCaption,      \* the caption provider's answer to the running transcribe_video
    transcripts0,     \* transcripts directory when the process started
    audio0,           \* audio directory when the process started
    interrupted,      \* an earlier batch run of this directory was killed
    persistedBefore,  \* videos whose transcript was persisted when it was killed
    transcripts,      \* scraper: transcripts dict, as its items in insertion order
    failed_videos,    \* scraper: failed_videos list
    to_process,       \* scraper: videos_to_process (videos, in order)
    progressFile,     \* scraper: transcription_progress.json, <<>> when missing
    saving,           \* scraper: thread inside _save_progress -> the dict it built
    api_key,          \* OPENAI_API_KEY as _get_openai_client found it: "unread" | "set" | "unset"
    exit_code,        \* exit status of the CLI process, <<>> while it runs
    extraction_cache, \* extraction_cache/{video_id}.json : existing name -> list
    cache0,           \* extraction cache when the process started
    all_startups,     \* extract_all: all_startups
    analyses,         \* fireship main: analyses (video ids, in order)
    exCalls,          \* chat-completion requests issued, per video
    exAnswer,         \* what the model answered for each video
    exRet,            \* what the per-item extraction returned, per video
    exRecords,        \* the record list a model response presents
    exTried,          \* presentation -> what extract_startups returned for it
    built,            \* path ("youtube" | "whisper") -> the transcript built on it
    analyses_cache,   \* fireship: analyses_cache.json, <<>> when missing, else <<list>>
    guidelineCalls,   \* fireship: requests made by generate_guidelines
    openai_client,    \* self._openai_client: 0 for None, else the client object
    clientsBuilt,     \* OpenAI(api_key=...) objects constructed so far
    clientsUsed,      \* the clients _get_openai_client has returned
    getting,          \* pool thread -> where it is in _get_openai_client
    cleaned           \* <<>>, or <<the cleanup_audio call made and what it returned>>

fsVars == <<transcriptsDir, audioDir>>
argVars == <<mode, use_whisper, start_from, max_workers>>
tvVars == <<curVideo, tvUseWhisper, cur, ret>>
batchVars == <<i, results, needs_whisper, audio_files>>
dlVars == <<dlTask, dlRet>>
wVars == <<wTask, wCur, wRet>>
callVars == <<capCalls, dlCalls, sttCalls>>
initVars == <<transcripts0, audio0, interrupted, persistedBefore>>
scVars == <<transcripts, failed_videos, to_process, progressFile, saving>>
envVars == <<api_key, exit_code>>
exVars == <<extraction_cache, cache0, all_startups, analyses, exCalls, exAnswer,
            exRet, exRecords, exTried>>
tbVars == <<built>>
aggVars == <<analyses_cache, guidelineCalls>>
clVars == <<openai_client, clientsBuilt, clientsUsed, getting>>
cuVars == <<cleaned>>
vars == <<transcriptsDir, audioDir, mode, use_whisper, start_from, max_workers,
          pc, i, curVideo, tvUseWhisper, cur, ret, results, needs_whisper,
          audio_files, dlTask, dlRet, wTask, wCur, wRet, capCalls, dlCalls,
          sttCalls, answers, lastCaption, transcripts0, audio0, interrupted,
          persistedBefore, transcripts, failed_videos, to_process, progressFile,
          saving, api_key, exit_code, extraction_cache, cache0, all_startups,
          analyses, exCalls, exAnswer, exRet, exRecords, exTried, built,
          analyses_cache, guidelineCalls, openai_client, clientsBuilt,
          clientsUsed, getting, cleaned>>

\* ---------------------------------------------------------------- helpers
Range(s) == {s[k] : k \in 1..Len(s)}

\* Path.exists() on transcripts/{v}.json and audio/{v}.mp3
TranscriptExists(v) == v \in DOMAIN transcriptsDir
AudioExists(v) == v \in DOMAIN audioDir

\* f with name v bound to x (created or overwritten).
WriteFile(f, v, x) == [n \in DOMAIN f \cup {v} |-> IF n = v THEN x ELSE f[n]]

\* A transcript file holding a complete JSON document.
Persisted(v) == TranscriptExists(v) /\ transcriptsDir[v] # TruncatedJson

\* The runs of the yt-dlp subprocess that a call of download_audio for v can
\* meet: what the subprocess does and the size of the file it writes. A run
\* that fails writes no file; when the audio file exists no subprocess is run
\* and the pair is not read.
SubprocessRuns(v) ==
    IF AudioExists(v)
    THEN {<<"ok", audioDir[v]>>}
    ELSE {<<"ok", size>> : size \in AudioSizes}
            \cup {<<ans, 0>> : ans \in DownloadAnswers \ {"ok"}}

\* Mutant of TooLarge: a file at the ceiling is rejected as well.
TooLargeAtCeiling(size) == size >= MAX_FILE_SIZE_MB

\* size_mb > self.MAX_FILE_SIZE_MB
TooLarge(size) == size > MAX_FILE_SIZE_MB

\* The first queued task in submission order (the executor's FIFO work queue).
FirstQueued(order, task) ==
    LET q == {k \in 1..Len(order) : task[order[k]] = "queued"}
    IN  IF q = {} THEN 0 ELSE order[CHOOSE k \in q : \A m \in q : k <= m]



\* ------------------------------------------------------------------- Init
\* After Transcriber.__init__: both directories exist.  They may hold what an
\* earlier completed run left: a caption transcript, or a Whisper transcript
\* together with the audio it was made from.
InitFilesFrom(kinds) ==
    \E warm \in [Videos -> kinds] :
        /\ transcriptsDir =
              [v \in {x \in Videos : warm[x] # "absent"} |-> Transcript(v, warm[v])]
        /\ audioDir =
              [v \in {x \in Videos : warm[x] = "whisper"} |-> MAX_FILE_SIZE_MB]

InitProcess ==
    /\ mode = "none"
    /\ use_whisper = FALSE
    /\ start_from = 0
    /\ max_workers = 1
    /\ pc = "start"
    /\ i = 0
    /\ curVideo = 0
    /\ tvUseWhisper = FALSE
    /\ cur = NoTranscript
    /\ ret = NoResult
    /\ results = <<>>
    /\ needs_whisper = <<>>
    /\ audio_files = <<>>
    /\ dlTask = [v \in Videos |-> "none"]
    /\ dlRet = [v \in Videos |-> FALSE]
    /\ wTask = [v \in Videos |-> "none"]
    /\ wCur = [v \in Videos |-> NoTranscript]
    /\ wRet = [v \in Videos |-> NoTranscript]
    /\ capCalls = [v \in Videos |-> 0]
    /\ dlCalls = [v \in Videos |-> 0]
    /\ sttCalls = [v \in Videos |-> 0]
    /\ answers = [v \in Videos |-> NoAnswers]
    /\ lastCaption = "None"
    /\ transcripts = <<>>
    /\ failed_videos = <<>>
    /\ to_process = <<>>
    /\ progressFile = <<>>
    /\ saving = [t \in {} |-> NoProgress]
    /\ api_key = "unread"
    /\ exit_code = <<>>
    /\ built = <<>>
    /\ openai_client = 0
    /\ clientsBuilt = 0
    /\ clientsUsed = {}
    /\ getting = [t \in Workers |-> [pc |-> "idle", local |-> 0, uses |-> 0]]
    /\ cleaned = <<>>

\* The extractor has done nothing: the value of its state in the runs of the
\* transcribers.
InitSweep ==
    /\ all_startups = <<>>
    /\ analyses = <<>>
    /\ exCalls = [v \in Videos |-> 0]
    /\ exAnswer = [v \in Videos |-> "None"]
    /\ exRet = [v \in Videos |-> NotReturned]
    /\ exTried = [p \in {} |-> NotReturned]
    /\ guidelineCalls = 0

InitExtractor ==
    /\ InitSweep
    /\ exRecords = <<>>

NoExtractionCache ==
    /\ extraction_cache = [v \in {} |-> <<>>]
    /\ cache0 = extraction_cache
    /\ analyses_cache = <<>>

Init ==
    /\ InitFilesFrom({"absent", "youtube", "whisper"})
    /\ InitProcess
    /\ InitExtractor
    /\ NoExtractionCache
    /\ transcripts0 = transcriptsDir
    /\ audio0 = audioDir
    /\ interrupted = FALSE
    /\ persistedBefore = {}

\* ------------------------------------------------- Part I: single video
\* Mutant of load_transcript: the cache is never consulted.
load_transcript_ignores_cache(v) == [raised |-> FALSE, value |-> NoTranscript]

\* load_transcript(video_id): the decoded file, None when there is no file.
\* A file that is not a complete JSON document makes json.load raise.
load_transcript(v) ==
    IF ~TranscriptExists(v) THEN [raised |-> FALSE, value |-> NoTranscript]
    ELSE IF transcriptsDir[v] = TruncatedJson
         THEN [raised |-> TRUE, value |-> NoTranscript]
         ELSE [raised |-> FALSE, value |-> transcriptsDir[v]]

\* get_youtube_transcript(video_id, languages) for a given provider answer:
\* every answer but a track is folded into None.
get_youtube_transcript(v, ans) ==
    IF ans = "track" THEN Transcript(v, "youtube") ELSE NoTranscript

\* Mutant of download_audio: the existing file is not looked for, the
\* subprocess is launched on every call.
download_audio_relaunches(v, ans, size) ==
    IF ans = "ok"
    THEN [path |-> TRUE, launched |-> TRUE, raised |-> FALSE,
          dir |-> WriteFile(audioDir, v, size)]
    ELSE [path |-> AudioExists(v), launched |-> TRUE, raised |-> FALSE,
          dir |-> audioDir]

\* Mutant of download_audio: the expiry of the subprocess timeout is not
\* caught.
download_audio_timeout_raises(v, ans, size) ==
    IF AudioExists(v)
    THEN [path |-> TRUE, launched |-> FALSE, raised |-> FALSE, dir |-> audioDir]
    ELSE IF ans = "ok"
         THEN [path |-> TRUE, launched |-> TRUE, raised |-> FALSE,
               dir |-> WriteFile(audioDir, v, size)]
         ELSE [path |-> FALSE, launched |-> TRUE, raised |-> ans = "TimeoutExpired",
               dir |-> audioDir]

\* Outcome of download_audio(video) given what the subprocess would do: an
\* existing file is returned without launching anything; a nonzero exit, the
\* expiry of the timeout (caught) and a missing output file return None.
download_audio(v, ans, size) ==
    IF AudioExists(v)
    THEN [path |-> TRUE, launched |-> FALSE, raised |-> FALSE, dir |-> audioDir]
    ELSE IF ans = "ok"
         THEN [path |-> TRUE, launched |-> TRUE, raised |-> FALSE,
               dir |-> WriteFile(audioDir, v, size)]
         ELSE [path |-> FALSE, launched |-> TRUE, raised |-> FALSE, dir |-> audioDir]

\* Mutant of stop_without_whisper: the use_whisper flag is not looked at.
stop_without_whisper_never(uw) == FALSE

\* transcribe_video, "if not use_whisper": return needs_whisper instead of
\* going on to Whisper.
stop_without_whisper(uw) == ~uw

\* The caller invokes transcribe_video(video, use_whisper=uw) directly.
Call_transcribe_video ==
    /\ pc = "start"
    /\ \E v \in Videos, uw \in BOOLEAN :
        /\ curVideo' = v
        /\ tvUseWhisper' = uw
    /\ mode' = "single"
    /\ pc' = "tv_load"
    /\ UNCHANGED <<fsVars, use_whisper, start_from, max_workers, batchVars, cur, ret,
                   dlVars, wVars, callVars, answers, lastCaption, initVars, envVars, exVars, scVars,
                   tbVars, aggVars, clVars, cuVars>>

\* transcribe_video: cached = self.load_transcript(video.id); if cached: return
TV_Load ==
    /\ pc = "tv_load"
    /\ LET cached == load_transcript(curVideo) IN
        IF cached.raised
        THEN /\ pc' = "raised"
             /\ ret' = ret
        ELSE IF cached.value # NoTranscript
             THEN /\ ret' = TranscriptResult(curVideo, cached.value, TRUE, "None", FALSE)
                  /\ pc' = "tv_ret"
             ELSE /\ pc' = "tv_fetch"
                  /\ ret' = ret
    /\ UNCHANGED <<fsVars, argVars, batchVars, curVideo, tvUseWhisper, cur,
                   dlVars, wVars, callVars, answers, lastCaption, initVars, envVars, exVars, scVars,
                   tbVars, aggVars, clVars, cuVars>>

\* transcribe_video: transcript = self.get_youtube_transcript(...); then either
\* save it, return needs_whisper, or go on to transcribe_with_whisper.
TV_Fetch ==
    /\ pc = "tv_fetch"
    /\ capCalls' = [capCalls EXCEPT ![curVideo] = @ + 1]
    /\ \E ans \in CaptionAnswers :
        LET transcript == get_youtube_transcript(curVideo, ans) IN
        /\ lastCaption' = ans
        /\ answers' = [answers EXCEPT ![curVideo].captions =
                          IF ans = "track" THEN "track" ELSE "absent"]
        /\ IF transcript # NoTranscript
           THEN /\ cur' = transcript
                /\ pc' = "tv_save"
                /\ UNCHANGED <<ret, wTask>>
           ELSE IF stop_without_whisper(tvUseWhisper)
                THEN /\ ret' = TranscriptResult(curVideo, NoTranscript, FALSE,
                                                "No YouTube transcript available", TRUE)
                     /\ pc' = "tv_ret"
                     /\ UNCHANGED <<cur, wTask>>
                ELSE /\ wTask' = [wTask EXCEPT ![curVideo] = "queued"]
                     /\ pc' = "tv_wait"
                     /\ UNCHANGED <<cur, ret>>
    /\ UNCHANGED <<fsVars, argVars, batchVars, curVideo, tvUseWhisper,
                   dlVars, wCur, wRet, dlCalls, sttCalls, initVars, envVars, exVars, scVars,
                   tbVars, aggVars, clVars, cuVars>>

\* save_transcript: open(output_path, "w") truncates the file.
TV_SaveOpen ==
    /\ pc = "tv_save"
    /\ transcriptsDir' = WriteFile(transcriptsDir, cur.video_id, TruncatedJson)
    /\ pc' = "tv_saving"
    /\ UNCHANGED <<audioDir, argVars, batchVars, tvVars, dlVars, wVars, callVars,
                   answers, lastCaption, initVars, envVars, exVars, scVars, tbVars,
                   aggVars, clVars, cuVars>>

\* save_transcript: json.dump finished and the file is closed; transcribe_video
\* then returns success.
TV_SaveClose ==
    /\ pc = "tv_saving"
    /\ transcriptsDir' = WriteFile(transcriptsDir, cur.video_id, cur)
    /\ ret' = TranscriptResult(curVideo, cur, TRUE, "None", FALSE)
    /\ pc' = "tv_ret"
    /\ UNCHANGED <<audioDir, argVars, batchVars, curVideo, tvUseWhisper, cur,
                   dlVars, wVars, callVars, answers, lastCaption, initVars, envVars, exVars, scVars,
                   tbVars, aggVars, clVars, cuVars>>

\* Mutant of TV_WhisperReturn: the transcript transcribe_with_whisper saved and
\* returned is reported as a failure.
TV_WhisperReturnAsFailure ==
    /\ pc = "tv_wait"
    /\ wTask[curVideo] = "finished"
    /\ wTask' = [wTask EXCEPT ![curVideo] = "consumed"]
    /\ ret' = TranscriptResult(curVideo, NoTranscript, FALSE,
                               "Failed to transcribe with Whisper", FALSE)
    /\ pc' = "tv_ret"
    /\ UNCHANGED <<fsVars, argVars, batchVars, curVideo, tvUseWhisper, cur,
                   dlVars, wCur, wRet, callVars, answers, lastCaption, initVars, envVars, exVars, scVars,
                   tbVars, aggVars, clVars, cuVars>>

\* transcribe_video: transcript = self.transcribe_with_whisper(video) returned.
TV_WhisperReturn ==
    /\ pc = "tv_wait"
    /\ wTask[curVideo] = "finished"
    /\ wTask' = [wTask EXCEPT ![curVideo] = "consumed"]
    /\ ret' = IF wRet[curVideo] # NoTranscript
              THEN TranscriptResult(curVideo, wRet[curVideo], TRUE, "None", FALSE)
              ELSE TranscriptResult(curVideo, NoTranscript, FALSE,
                                    "Failed to transcribe with Whisper", FALSE)
    /\ pc' = "tv_ret"
    /\ UNCHANGED <<fsVars, argVars, batchVars, curVideo, tvUseWhisper, cur,
                   dlVars, wCur, wRet, callVars, answers, lastCaption, initVars, envVars, exVars, scVars,
                   tbVars, aggVars, clVars, cuVars>>

\* The direct call returns to its caller.
TV_Return ==
    /\ pc = "tv_ret"
    /\ mode = "single"
    /\ pc' = "done"
    /\ UNCHANGED <<fsVars, argVars, batchVars, tvVars, dlVars, wVars, callVars,
                   answers, lastCaption, initVars, envVars, exVars, scVars, tbVars,
                   aggVars, clVars, cuVars>>

\* --------------------------------------- Part I: transcribe_with_whisper
\* Mutant of MayStartWhisper: the pool starts a queued call whatever the
\* number of calls that are running.
MayStartWhisperUnbounded(v) ==
    /\ wTask[v] = "queued"
    /\ \/ mode = "single"
       \/ /\ pc = "p2_stt"
          /\ v = FirstQueued(audio_files, wTask)

\* A transcribe_with_whisper(video) call may begin: at once when the calling
\* thread runs it (transcribe_video), and in the pool when a worker is free
\* and the call is the oldest one queued.
MayStartWhisper(v) ==
    /\ wTask[v] = "queued"
    /\ \/ mode = "single"
       \/ /\ pc = "p2_stt"
          /\ v = FirstQueued(audio_files, wTask)
          /\ Cardinality({x \in Videos : wTask[x] \in {"running", "save", "saving"}})
                < max_workers

\* os.getenv("OPENAI_API_KEY") as _get_openai_client finds it. The environment
\* of the process does not change: the value found first is found ever after.
KeysFound == IF api_key = "unread" THEN {"set", "unset"} ELSE {api_key}

\* Mutant of CredentialError: the ValueError of a missing key is not caught and
\* ends the call.
CredentialErrorFatal(caught, fatal) == fatal

\* What the ValueError of _get_openai_client becomes: it is raised inside the
\* try block of the speech-to-text step, whose "except Exception" catches it.
CredentialError(caught, fatal) == caught

\* transcribe_with_whisper up to the request: download_audio, the size check,
\* _get_openai_client, and client.audio.transcriptions.create sent.
W_Start(v) ==
    /\ MayStartWhisper(v)
    /\ \E run \in SubprocessRuns(v) :
        LET d == download_audio(v, run[1], run[2])
            downloaded == IF d.launched
                          THEN [answers EXCEPT ![v].download =
                                  IF d.path THEN "ok" ELSE "failed"]
                          ELSE answers
        IN
        /\ audioDir' = d.dir
        /\ dlCalls' = IF d.launched THEN [dlCalls EXCEPT ![v] = @ + 1] ELSE dlCalls
        /\ IF d.path /\ ~TooLarge(d.dir[v])
           THEN \E key \in KeysFound :
                 /\ api_key' = key
                 /\ IF key = "set"
                    THEN /\ sttCalls' = [sttCalls EXCEPT ![v] = @ + 1]
                         /\ wTask' = [wTask EXCEPT ![v] = "running"]
                         /\ wRet' = wRet
                         /\ answers' = downloaded
                         /\ pc' = pc
                    ELSE /\ sttCalls' = sttCalls
                         /\ wRet' = [wRet EXCEPT ![v] = NoTranscript]
                         /\ answers' = [downloaded EXCEPT ![v].stt = "Exception"]
                         /\ wTask' = [wTask EXCEPT ![v] =
                                        CredentialError("finished", "running")]
                         /\ pc' = CredentialError(pc, "raised")
           ELSE /\ wTask' = [wTask EXCEPT ![v] = "finished"]
                /\ wRet' = [wRet EXCEPT ![v] = NoTranscript]
                /\ answers' = downloaded
                /\ UNCHANGED <<sttCalls, api_key, pc>>
    /\ UNCHANGED <<transcriptsDir, mode, use_whisper, start_from, max_workers,
                   batchVars, tvVars, dlVars, wCur, capCalls, lastCaption, initVars,
                   exit_code, exVars, scVars, tbVars, aggVars, clVars, cuVars>>

\* Mutant of W_Response: an exception of the Whisper request is not caught, so
\* it leaves the pool and ends the call.
W_ResponseUncaught(v) ==
    /\ wTask[v] = "running"
    /\ \E ans \in {"response", "Exception"} :
        /\ answers' = [answers EXCEPT ![v].stt = ans]
        /\ IF ans = "response"
           THEN /\ wCur' = [wCur EXCEPT ![v] = Transcript(v, "whisper")]
                /\ wTask' = [wTask EXCEPT ![v] = "save"]
                /\ UNCHANGED <<wRet, pc>>
           ELSE /\ wTask' = [wTask EXCEPT ![v] = "finished"]
                /\ pc' = "raised"
                /\ UNCHANGED <<wRet, wCur>>
    /\ UNCHANGED <<fsVars, argVars, batchVars, tvVars, dlVars, callVars,
                   lastCaption, initVars, envVars, exVars, scVars, tbVars, aggVars,
                   clVars, cuVars>>

\* Mutant of W_Response: the transcript is returned without being saved.
W_ResponseNoSave(v) ==
    /\ wTask[v] = "running"
    /\ \E ans \in {"response", "Exception"} :
        /\ answers' = [answers EXCEPT ![v].stt = ans]
        /\ wCur' = IF ans = "response"
                   THEN [wCur EXCEPT ![v] = Transcript(v, "whisper")] ELSE wCur
        /\ wRet' = [wRet EXCEPT ![v] = wCur'[v]]
        /\ wTask' = [wTask EXCEPT ![v] = "finished"]
    /\ UNCHANGED <<fsVars, argVars, pc, batchVars, tvVars, dlVars, callVars,
                   lastCaption, initVars, envVars, exVars, scVars, tbVars, aggVars,
                   clVars, cuVars>>

\* Mutant of W_Response: after an exception the request is made again.
W_ResponseRetries(v) ==
    /\ wTask[v] = "running"
    /\ \E ans \in {"response", "Exception"} :
        /\ answers' = [answers EXCEPT ![v].stt = ans]
        /\ IF ans = "response"
           THEN /\ wCur' = [wCur EXCEPT ![v] = Transcript(v, "whisper")]
                /\ wTask' = [wTask EXCEPT ![v] = "save"]
           ELSE /\ wTask' = [wTask EXCEPT ![v] = "queued"]
                /\ wCur' = wCur
        /\ wRet' = wRet
    /\ UNCHANGED <<fsVars, argVars, pc, batchVars, tvVars, dlVars, callVars,
                   lastCaption, initVars, envVars, exVars, scVars, tbVars, aggVars,
                   clVars, cuVars>>

\* The Whisper request answers: a response, or any exception (caught, None).
W_Response(v) ==
    /\ wTask[v] = "running"
    /\ \E ans \in {"response", "Exception"} :
        /\ answers' = [answers EXCEPT ![v].stt = ans]
        /\ IF ans = "response"
           THEN /\ wCur' = [wCur EXCEPT ![v] = Transcript(v, "whisper")]
                /\ wTask' = [wTask EXCEPT ![v] = "save"]
                /\ wRet' = wRet
           ELSE /\ wTask' = [wTask EXCEPT ![v] = "finished"]
                /\ wRet' = [wRet EXCEPT ![v] = NoTranscript]
                /\ wCur' = wCur
    /\ UNCHANGED <<fsVars, argVars, pc, batchVars, tvVars, dlVars, callVars,
                   lastCaption, initVars, envVars, exVars, scVars, tbVars, aggVars,
                   clVars, cuVars>>

\* "Save immediately": save_transcript opens the file for writing.
W_SaveOpen(v) ==
    /\ wTask[v] = "save"
    /\ transcriptsDir' = WriteFile(transcriptsDir, wCur[v].video_id, TruncatedJson)
    /\ wTask' = [wTask EXCEPT ![v] = "saving"]
    /\ UNCHANGED <<audioDir, argVars, pc, batchVars, tvVars, dlVars, wCur, wRet,
                   callVars, answers, lastCaption, initVars, envVars, exVars, scVars,
                   tbVars, aggVars, clVars, cuVars>>

\* save_transcript finished; transcribe_with_whisper returns the transcript.
W_SaveClose(v) ==
    /\ wTask[v] = "saving"
    /\ transcriptsDir' = WriteFile(transcriptsDir, wCur[v].video_id, wCur[v])
    /\ wRet' = [wRet EXCEPT ![v] = wCur[v]]
    /\ wTask' = [wTask EXCEPT ![v] = "finished"]
    /\ UNCHANGED <<audioDir, argVars, pc, batchVars, tvVars, dlVars, wCur,
                   callVars, answers, lastCaption, initVars, envVars, exVars, scVars,
                   tbVars, aggVars, clVars, cuVars>>

\* ------------------------------------------------ Part I: transcribe_all
\* Mutant of videos_to_process: the slice starts one position early.
videos_to_process_early(k) == {v \in Videos : v >= k}

\* videos_to_process = videos[start_from:], as positions of the list.
videos_to_process(k) == {v \in Videos : v > k}

\* The caller invokes transcribe_all(videos, use_whisper, max_workers, start_from);
\* the first pass starts on the first video to process, if there is one.
Call_transcribe_all ==
    /\ pc = "start"
    /\ \E uw \in BOOLEAN, k \in 0..NumVideos, mw \in WorkerCounts :
        /\ use_whisper' = uw
        /\ start_from' = k
        /\ max_workers' = mw
        /\ IF videos_to_process(k) # {}
           THEN /\ curVideo' = CHOOSE v \in videos_to_process(k) :
                                  \A x \in videos_to_process(k) : v <= x
                /\ pc' = "tv_load"
           ELSE /\ curVideo' = curVideo
                /\ pc' = "p1_end"
    /\ mode' = "all"
    /\ tvUseWhisper' = FALSE
    /\ UNCHANGED <<fsVars, batchVars, cur, ret, dlVars, wVars, callVars, answers, lastCaption, initVars, envVars, exVars, scVars,
                   tbVars, aggVars, clVars, cuVars>>

\* Mutant of P1_Collect: a video without captions is put on needs_whisper
\* twice.
P1_CollectTwice ==
    /\ pc = "tv_ret"
    /\ mode = "all"
    /\ results' = IF ret.success \/ (ret.needs_whisper /\ ~use_whisper)
                  THEN Append(results, ret) ELSE results
    /\ needs_whisper' = IF ~ret.success /\ ret.needs_whisper
                        THEN Append(Append(needs_whisper, curVideo), curVideo)
                        ELSE needs_whisper
    /\ i' = i + 1
    /\ lastCaption' = "None"
    /\ IF curVideo + 1 \in videos_to_process(start_from)
       THEN /\ curVideo' = curVideo + 1
            /\ pc' = "tv_load"
       ELSE /\ curVideo' = curVideo
            /\ pc' = "p1_end"
    /\ UNCHANGED <<fsVars, argVars, audio_files, tvUseWhisper, cur, ret, dlVars,
                   wVars, callVars, answers, initVars, envVars, exVars, scVars, tbVars,
                   aggVars, clVars, cuVars>>

\* First pass, after transcribe_video(video, use_whisper=False) returned:
\* record the result and move to the next video.
P1_Collect ==
    /\ pc = "tv_ret"
    /\ mode = "all"
    /\ results' = IF ret.success \/ (ret.needs_whisper /\ ~use_whisper)
                  THEN Append(results, ret) ELSE results
    /\ needs_whisper' = IF ~ret.success /\ ret.needs_whisper
                        THEN Append(needs_whisper, curVideo) ELSE needs_whisper
    /\ i' = i + 1
    /\ lastCaption' = "None"
    /\ IF curVideo + 1 \in videos_to_process(start_from)
       THEN /\ curVideo' = curVideo + 1
            /\ pc' = "tv_load"
       ELSE /\ curVideo' = curVideo
            /\ pc' = "p1_end"
    /\ UNCHANGED <<fsVars, argVars, audio_files, tvUseWhisper, cur, ret, dlVars,
                   wVars, callVars, answers, initVars, envVars, exVars, scVars, tbVars,
                   aggVars, clVars, cuVars>>

\* Mutant of P1_End: the second pass is entered whatever use_whisper is.
P1_EndIgnoresFlag ==
    /\ pc = "p1_end"
    /\ IF needs_whisper # <<>>
       THEN /\ dlTask' = [v \in Videos |->
                            IF v \in Range(needs_whisper) THEN "queued" ELSE dlTask[v]]
            /\ pc' = "p2_dl"
       ELSE /\ dlTask' = dlTask
            /\ pc' = "done"
    /\ UNCHANGED <<fsVars, argVars, batchVars, tvVars, dlRet, wVars, callVars,
                   answers, lastCaption, initVars, envVars, exVars, scVars, tbVars,
                   aggVars, clVars, cuVars>>

\* "if use_whisper and needs_whisper": submit one download per candidate,
\* otherwise go to the summary and return.
P1_End ==
    /\ pc = "p1_end"
    /\ IF use_whisper /\ needs_whisper # <<>>
       THEN /\ dlTask' = [v \in Videos |->
                            IF v \in Range(needs_whisper) THEN "queued" ELSE dlTask[v]]
            /\ pc' = "p2_dl"
       ELSE /\ dlTask' = dlTask
            /\ pc' = "done"
    /\ UNCHANGED <<fsVars, argVars, batchVars, tvVars, dlRet, wVars, callVars,
                   answers, lastCaption, initVars, envVars, exVars, scVars, tbVars,
                   aggVars, clVars, cuVars>>

\* Mutant of PoolDrained: the loop is left after the first future yielded.
PoolDrainedFirst(order, task) ==
    order = <<>> \/ \E v \in Range(order) : task[v] = "consumed"

\* "with ThreadPoolExecutor(...)" around "for future in as_completed(...)":
\* the block is left once every submitted future has been yielded.
PoolDrained(order, task) == \A v \in Range(order) : task[v] = "consumed"

\* A pool worker takes the oldest queued download and runs download_audio up
\* to the subprocess; an existing file is returned at once.
Dl_Start(v) ==
    /\ pc = "p2_dl"
    /\ v = FirstQueued(needs_whisper, dlTask)
    /\ Cardinality({x \in Videos : dlTask[x] = "running"}) < max_workers
    /\ IF AudioExists(v)
       THEN /\ dlTask' = [dlTask EXCEPT ![v] = "finished"]
            /\ dlRet' = [dlRet EXCEPT ![v] = TRUE]
            /\ dlCalls' = dlCalls
       ELSE /\ dlTask' = [dlTask EXCEPT ![v] = "running"]
            /\ dlRet' = dlRet
            /\ dlCalls' = [dlCalls EXCEPT ![v] = @ + 1]
    /\ UNCHANGED <<fsVars, argVars, pc, batchVars, tvVars, wVars, capCalls, sttCalls,
                   answers, lastCaption, initVars, envVars, exVars, scVars, tbVars,
                   aggVars, clVars, cuVars>>

\* Mutant of Dl_Finish: the subprocess is run without a timeout, and where
\* the timeout would have expired it never returns.
Dl_FinishNoTimeout(v) ==
    /\ dlTask[v] = "running"
    /\ \E run \in SubprocessRuns(v) :
        LET d == download_audio(v, run[1], run[2]) IN
        /\ audioDir' = d.dir
        /\ dlRet' = [dlRet EXCEPT ![v] = d.path]
        /\ answers' = [answers EXCEPT ![v].download = IF d.path THEN "ok" ELSE "failed"]
        /\ dlTask' = [dlTask EXCEPT ![v] =
                         IF run[1] = "TimeoutExpired" THEN "hung" ELSE "finished"]
    /\ UNCHANGED <<transcriptsDir, argVars, pc, batchVars, tvVars, wVars, callVars,
                   lastCaption, initVars, envVars, exVars, scVars, tbVars, aggVars,
                   clVars, cuVars>>

\* The subprocess of a running download ends (or its 300 s timeout expires).
Dl_Finish(v) ==
    /\ dlTask[v] = "running"
    /\ \E run \in SubprocessRuns(v) :
        LET d == download_audio(v, run[1], run[2]) IN
        /\ audioDir' = d.dir
        /\ dlRet' = [dlRet EXCEPT ![v] = d.path]
        /\ answers' = [answers EXCEPT ![v].download = IF d.path THEN "ok" ELSE "failed"]
    /\ dlTask' = [dlTask EXCEPT ![v] = "finished"]
    /\ UNCHANGED <<transcriptsDir, argVars, pc, batchVars, tvVars, wVars, callVars,
                   lastCaption, initVars, envVars, exVars, scVars, tbVars, aggVars,
                   clVars, cuVars>>

\* Mutant of P2_DownloadDone: a failed download is not recorded.
P2_DownloadDoneDropsFailure(v) ==
    /\ pc = "p2_dl"
    /\ dlTask[v] = "finished"
    /\ dlTask' = [dlTask EXCEPT ![v] = "consumed"]
    /\ audio_files' = IF dlRet[v] THEN Append(audio_files, v) ELSE audio_files
    /\ UNCHANGED <<fsVars, argVars, pc, i, results, needs_whisper, tvVars, dlRet, wVars,
                   callVars, answers, lastCaption, initVars, envVars, exVars, scVars,
                   tbVars, aggVars, clVars, cuVars>>

\* as_completed(future_to_video) yields a finished download: keep its audio
\* file or record the failure.
P2_DownloadDone(v) ==
    /\ pc = "p2_dl"
    /\ dlTask[v] = "finished"
    /\ dlTask' = [dlTask EXCEPT ![v] = "consumed"]
    /\ IF dlRet[v]
       THEN /\ audio_files' = Append(audio_files, v)
            /\ results' = results
       ELSE /\ results' = Append(results,
                  TranscriptResult(v, NoTranscript, FALSE, "Failed to download audio", FALSE))
            /\ audio_files' = audio_files
    /\ UNCHANGED <<fsVars, argVars, pc, i, needs_whisper, tvVars, dlRet, wVars,
                   callVars, answers, lastCaption, initVars, envVars, exVars, scVars,
                   tbVars, aggVars, clVars, cuVars>>

\* The download pool is drained: submit transcribe_single for every audio file.
P2_SubmitWhisper ==
    /\ pc = "p2_dl"
    /\ PoolDrained(needs_whisper, dlTask)
    /\ wTask' = [v \in Videos |->
                    IF v \in Range(audio_files) THEN "queued" ELSE wTask[v]]
    /\ pc' = "p2_stt"
    /\ UNCHANGED <<fsVars, argVars, batchVars, tvVars, dlVars, wCur, wRet, callVars,
                   answers, lastCaption, initVars, envVars, exVars, scVars, tbVars,
                   aggVars, clVars, cuVars>>

\* as_completed(futures) yields a finished transcribe_single: record the result.
P2_WhisperDone(v) ==
    /\ pc = "p2_stt"
    /\ wTask[v] = "finished"
    /\ wTask' = [wTask EXCEPT ![v] = "consumed"]
    /\ results' = Append(results,
          IF wRet[v] # NoTranscript
          THEN TranscriptResult(v, wRet[v], TRUE, "None", FALSE)
          ELSE TranscriptResult(v, NoTranscript, FALSE, "Whisper transcription failed", FALSE))
    /\ UNCHANGED <<fsVars, argVars, pc, i, needs_whisper, audio_files, tvVars, dlVars,
                   wCur, wRet, callVars, answers, lastCaption, initVars, envVars, exVars, scVars,
                   tbVars, aggVars, clVars, cuVars>>

\* The transcription pool is drained: summary, return results.
P2_Return ==
    /\ pc = "p2_stt"
    /\ PoolDrained(audio_files, wTask)
    /\ pc' = "done"
    /\ UNCHANGED <<fsVars, argVars, batchVars, tvVars, dlVars, wVars, callVars,
                   answers, lastCaption, initVars, envVars, exVars, scVars, tbVars,
                   aggVars, clVars, cuVars>>

\* ------------------------------------------------------------------- Next
\* Mutant of failures: an outcome that needs speech-to-text is not counted.
failures_without_needs_whisper(rs) ==
    Cardinality({k \in 1..Len(rs) : ~rs[k].success /\ ~rs[k].needs_whisper})

\* main: failures = sum(1 for r in results if not r.success)
failures(rs) == Cardinality({k \in 1..Len(rs) : ~rs[k].success})

\* main after transcribe_all: sys.exit(1) if failures > 0, else the end of
\* main is reached and the status is 0. An exception that left transcribe_all
\* ends the interpreter with status 1.
Main_Exit ==
    /\ mode = "all"
    /\ pc \in {"done", "raised"}
    /\ exit_code = <<>>
    /\ exit_code' = IF pc = "raised" THEN <<1>>
                    ELSE IF failures(results) > 0 THEN <<1>> ELSE <<0>>
    /\ UNCHANGED <<fsVars, argVars, pc, batchVars, tvVars, dlVars, wVars, callVars,
                   answers, lastCaption, initVars, api_key, exVars, scVars, tbVars,
                   aggVars, clVars, cuVars>>

Next ==
    \/ Call_transcribe_video
    \/ Main_Exit
    \/ Call_transcribe_all
    \/ TV_Load
    \/ TV_Fetch
    \/ TV_SaveOpen
    \/ TV_SaveClose
    \/ TV_WhisperReturn
    \/ TV_Return
    \/ P1_Collect
    \/ P1_End
    \/ P2_SubmitWhisper
    \/ P2_Return
    \/ \E v \in Videos :
        \/ W_Start(v)
        \/ W_Response(v)
        \/ W_SaveOpen(v)
        \/ W_SaveClose(v)
        \/ Dl_Start(v)
        \/ Dl_Finish(v)
        \/ P2_DownloadDone(v)
        \/ P2_WhisperDone(v)

Spec == Init /\ [][Next]_vars

\* ------------------------------------------- Part I: interruption, restart
\* A fresh output directory.
InitCold ==
    /\ InitFilesFrom({"absent"})
    /\ InitProcess
    /\ InitExtractor
    /\ NoExtractionCache
    /\ transcripts0 = transcriptsDir
    /\ audio0 = audioDir
    /\ interrupted = FALSE
    /\ persistedBefore = {}

\* The process running transcribe_all is stopped by a signal, at any point
\* (there is no cancellation handling in the code), and started again on the
\* same output directory: the files stay as they are, everything in memory is
\* gone.
Interrupt ==
    /\ ~interrupted
    /\ mode = "all"
    /\ pc \notin {"start", "done", "raised"}
    /\ interrupted' = TRUE
    /\ persistedBefore' = {v \in Videos : Persisted(v)}
    /\ transcripts0' = transcriptsDir
    /\ audio0' = audioDir
    /\ mode' = "none"
    /\ use_whisper' = FALSE
    /\ start_from' = 0
    /\ max_workers' = 1
    /\ pc' = "start"
    /\ i' = 0
    /\ curVideo' = 0
    /\ tvUseWhisper' = FALSE
    /\ cur' = NoTranscript
    /\ ret' = NoResult
    /\ results' = <<>>
    /\ needs_whisper' = <<>>
    /\ audio_files' = <<>>
    /\ dlTask' = [v \in Videos |-> "none"]
    /\ dlRet' = [v \in Videos |-> FALSE]
    /\ wTask' = [v \in Videos |-> "none"]
    /\ wCur' = [v \in Videos |-> NoTranscript]
    /\ wRet' = [v \in Videos |-> NoTranscript]
    /\ capCalls' = [v \in Videos |-> 0]
    /\ dlCalls' = [v \in Videos |-> 0]
    /\ sttCalls' = [v \in Videos |-> 0]
    /\ answers' = [v \in Videos |-> NoAnswers]
    /\ lastCaption' = "None"
    /\ UNCHANGED <<fsVars, scVars, envVars, exVars, tbVars, aggVars, clVars, cuVars>>

\* The transcriber on an output directory that holds nothing yet.
SpecCold == InitCold /\ [][Next]_vars

\* The runs in which no thread that can take a step waits for ever: every
\* remote operation returns or raises, the subprocess ends or its timeout
\* expires, and the threads are scheduled.
SpecLive == InitCold /\ [][Next]_vars /\ WF_vars(Next)

NextRestart == Next \/ Interrupt

SpecRestart == InitCold /\ [][NextRestart]_vars

\* ------------------------------------------------ Part II: the scraper
\* A Python dict as the sequence of its items in insertion order.
DictHas(d, key) == \E k \in 1..Len(d) : d[k].key = key

\* list(d.keys())
DictKeys(d) == [k \in 1..Len(d) |-> d[k].key]

\* d[key] = x: an existing key keeps its place, a new one goes last.
DictSet(d, key, x) ==
    IF DictHas(d, key)
    THEN [k \in 1..Len(d) |-> IF d[k].key = key THEN [key |-> key, value |-> x] ELSE d[k]]
    ELSE Append(d, [key |-> key, value |-> x])

\* "for video in videos: cached = self.load_transcript(video.id); if cached:
\* transcripts[video.id] = cached", over the first n videos.
RECURSIVE LoadExisting(_)
LoadExisting(n) ==
    IF n = 0 THEN <<>>
    ELSE LET d == LoadExisting(n - 1) IN
         IF load_transcript(n).value # NoTranscript
         THEN DictSet(d, n, load_transcript(n).value)
         ELSE d

\* videos[start_idx:] without the videos already in the dict, in list order.
Uncached(d, k) ==
    SelectSeq([n \in 1..NumVideos |-> n], LAMBDA v : v > k /\ ~DictHas(d, v))

\* An entry of failed_videos: (idx, video.id, error), idx counted from 0.
Failure(v, e) == [index |-> v - 1, video_id |-> v, error |-> e]

\* The dict _save_progress builds from its two arguments.
ProgressOf(d, failed) == Progress(Len(d), DictKeys(d), failed)

\* The thread that called transcribe_all; a pool worker is named by its video.
MainThread == 0

\* main.py calls transcribe_all(videos, start_from, use_whisper, max_workers).
\* With use_whisper the call is transcribe_batch_whisper: load what is cached,
\* return if nothing is left, else submit one download per video left.
\* Without it: load what is cached and start the loop over videos[start_idx:].
SC_Call_transcribe_all ==
    /\ pc = "start"
    /\ mode' = "sc_all"
    /\ \E uw \in BOOLEAN, k \in 0..NumVideos, mw \in WorkerCounts :
        /\ use_whisper' = uw
        /\ start_from' = k
        /\ max_workers' = mw
        /\ IF \E v \in Videos : load_transcript(v).raised
           THEN /\ pc' = "raised"
                /\ UNCHANGED <<transcripts, to_process, dlTask, curVideo>>
           ELSE LET loaded == LoadExisting(NumVideos)
                    todo == Uncached(loaded, k)
                IN  /\ transcripts' = loaded
                    /\ to_process' = todo
                    /\ IF uw
                       THEN /\ dlTask' = [v \in Videos |->
                                  IF v \in Range(todo) THEN "queued" ELSE dlTask[v]]
                            /\ pc' = IF todo = <<>> THEN "done" ELSE "sc_p2_dl"
                            /\ curVideo' = curVideo
                       ELSE /\ dlTask' = dlTask
                            /\ curVideo' = IF todo = <<>> THEN curVideo ELSE Head(todo)
                            /\ pc' = IF todo = <<>> THEN "sc_save" ELSE "sc_tv"
    /\ tvUseWhisper' = FALSE
    /\ UNCHANGED <<fsVars, i, results, needs_whisper, audio_files, cur, ret, dlRet,
                   wVars, callVars, answers, lastCaption, initVars, envVars, exVars, failed_videos,
                   progressFile, saving, tbVars, aggVars, clVars, cuVars>>

\* main.py --single-video calls transcribe_video(test_video, use_whisper).
SC_Call_transcribe_video ==
    /\ pc = "start"
    /\ mode' = "sc_single"
    /\ \E v \in Videos, uw \in BOOLEAN :
        /\ curVideo' = v
        /\ tvUseWhisper' = uw
        /\ use_whisper' = uw
    /\ pc' = "sc_tv"
    /\ UNCHANGED <<fsVars, start_from, max_workers, batchVars, cur, ret, dlVars,
                   wVars, callVars, answers, lastCaption, initVars, envVars, exVars, scVars,
                   tbVars, aggVars, clVars, cuVars>>

\* transcribe_video(video, use_whisper): return what is cached; "if not
\* use_whisper" try the captions and save and return them when there are some;
\* in every other case go on to transcribe_with_whisper.
SC_TV_Fetch ==
    /\ pc = "sc_tv"
    /\ LET cached == load_transcript(curVideo) IN
        IF cached.raised
        THEN /\ pc' = "raised"
             /\ UNCHANGED <<cur, transcriptsDir, capCalls, answers>>
        ELSE IF cached.value # NoTranscript
        THEN /\ cur' = cached.value
             /\ pc' = "sc_tv_ret"
             /\ UNCHANGED <<transcriptsDir, capCalls, answers>>
        ELSE IF tvUseWhisper
        THEN /\ pc' = "sc_whisper"
             /\ UNCHANGED <<cur, transcriptsDir, capCalls, answers>>
        ELSE /\ capCalls' = [capCalls EXCEPT ![curVideo] = @ + 1]
             /\ \E ans \in CaptionAnswers :
                 LET transcript == get_youtube_transcript(curVideo, ans) IN
                 /\ answers' = [answers EXCEPT ![curVideo].captions =
                                   IF ans = "track" THEN "track" ELSE "absent"]
                 /\ IF transcript # NoTranscript
                    THEN /\ transcriptsDir' =
                               WriteFile(transcriptsDir, transcript.video_id, transcript)
                         /\ cur' = transcript
                         /\ pc' = "sc_tv_ret"
                    ELSE /\ pc' = "sc_whisper"
                         /\ UNCHANGED <<cur, transcriptsDir>>
    /\ UNCHANGED <<audioDir, argVars, batchVars, curVideo, tvUseWhisper, ret, dlVars,
                   wVars, dlCalls, sttCalls, lastCaption, initVars, envVars, exVars, scVars,
                   tbVars, aggVars, clVars, cuVars>>

\* transcribe_with_whisper on the calling thread: download_audio, the size
\* check, and the Whisper request sent.
SC_Whisper_Download ==
    /\ pc = "sc_whisper"
    /\ \E ans \in DownloadAnswers, size \in AudioSizes :
        LET d == download_audio(curVideo, ans, size)
            downloaded == IF d.launched
                          THEN [answers EXCEPT ![curVideo].download =
                                  IF d.path THEN "ok" ELSE "failed"]
                          ELSE answers
        IN
        /\ audioDir' = d.dir
        /\ dlCalls' = IF d.launched THEN [dlCalls EXCEPT ![curVideo] = @ + 1] ELSE dlCalls
        /\ IF d.path /\ ~TooLarge(d.dir[curVideo])
           THEN \E key \in KeysFound :
                 /\ api_key' = key
                 /\ IF key = "set"
                    THEN /\ sttCalls' = [sttCalls EXCEPT ![curVideo] = @ + 1]
                         /\ pc' = "sc_whisper_req"
                         /\ cur' = cur
                         /\ answers' = downloaded
                    ELSE /\ cur' = NoTranscript
                         /\ pc' = "sc_tv_ret"
                         /\ sttCalls' = sttCalls
                         /\ answers' = [downloaded EXCEPT ![curVideo].stt = "Exception"]
           ELSE /\ cur' = NoTranscript
                /\ pc' = "sc_tv_ret"
                /\ answers' = downloaded
                /\ UNCHANGED <<sttCalls, api_key>>
    /\ UNCHANGED <<transcriptsDir, mode, use_whisper, start_from, max_workers,
                   batchVars, curVideo, tvUseWhisper, ret, dlVars, wVars, capCalls,
                   lastCaption, initVars, exit_code, exVars, scVars, tbVars, aggVars,
                   clVars, cuVars>>

\* transcribe_with_whisper on the calling thread: the request answers; a
\* response is saved and returned, an exception gives None.
SC_Whisper_Response ==
    /\ pc = "sc_whisper_req"
    /\ \E ans \in {"response", "Exception"} :
        /\ answers' = [answers EXCEPT ![curVideo].stt = ans]
        /\ IF ans = "response"
           THEN /\ transcriptsDir' =
                      WriteFile(transcriptsDir, curVideo, Transcript(curVideo, "whisper"))
                /\ cur' = Transcript(curVideo, "whisper")
           ELSE /\ cur' = NoTranscript
                /\ transcriptsDir' = transcriptsDir
    /\ pc' = "sc_tv_ret"
    /\ UNCHANGED <<audioDir, argVars, batchVars, curVideo, tvUseWhisper, ret, dlVars,
                   wVars, callVars, lastCaption, initVars, envVars, exVars, scVars,
                   tbVars, aggVars, clVars, cuVars>>

\* The direct call returns to main.py.
SC_TV_Return ==
    /\ pc = "sc_tv_ret"
    /\ mode = "sc_single"
    /\ pc' = "done"
    /\ UNCHANGED <<fsVars, argVars, batchVars, tvVars, dlVars, wVars, callVars,
                   answers, lastCaption, initVars, envVars, exVars, scVars, tbVars,
                   aggVars, clVars, cuVars>>

\* transcribe_all without Whisper, after transcribe_video returned: record the
\* transcript or the failure, and go to the next video that is not in the
\* dict; after the last one call _save_progress.
SC_Loop_Collect ==
    /\ pc = "sc_tv_ret"
    /\ mode = "sc_all"
    /\ IF cur # NoTranscript
       THEN /\ transcripts' = DictSet(transcripts, curVideo, cur)
            /\ failed_videos' = failed_videos
       ELSE /\ failed_videos' =
                  Append(failed_videos, Failure(curVideo, "No transcript available"))
            /\ transcripts' = transcripts
    /\ LET rest == Uncached(transcripts', curVideo) IN
        /\ curVideo' = IF rest = <<>> THEN curVideo ELSE Head(rest)
        /\ pc' = IF rest = <<>> THEN "sc_save" ELSE "sc_tv"
    /\ UNCHANGED <<fsVars, argVars, batchVars, tvUseWhisper, cur, ret, dlVars, wVars,
                   callVars, answers, lastCaption, initVars, envVars, exVars, to_process, progressFile,
                   saving, tbVars, aggVars, clVars, cuVars>>

\* _save_progress(transcripts, failed), called by the thread that runs the
\* loop: the progress dict is built from the two collections.
SP_Begin ==
    /\ pc = "sc_save"
    /\ saving' = [t \in DOMAIN saving \cup {MainThread} |->
                     IF t = MainThread THEN ProgressOf(transcripts, failed_videos)
                                       ELSE saving[t]]
    /\ pc' = "sc_saving"
    /\ UNCHANGED <<fsVars, argVars, batchVars, tvVars, dlVars, wVars, callVars,
                   answers, lastCaption, initVars, envVars, exVars, transcripts, failed_videos,
                   to_process, progressFile, tbVars, aggVars, clVars, cuVars>>

\* _save_progress: the dict is dumped over transcription_progress.json and the
\* call returns: to the as_completed loop of transcribe_batch_whisper, or to
\* the end of transcribe_all.
SP_Write(t) ==
    /\ t \in DOMAIN saving
    /\ progressFile' = <<saving[t]>>
    /\ saving' = [x \in DOMAIN saving \ {t} |-> saving[x]]
    /\ pc' = IF t # MainThread THEN pc
             ELSE IF use_whisper THEN "sc_p2_stt" ELSE "done"
    /\ UNCHANGED <<fsVars, argVars, batchVars, tvVars, dlVars, wVars, callVars,
                   answers, lastCaption, initVars, envVars, exVars, transcripts, failed_videos,
                   to_process, tbVars, aggVars, clVars, cuVars>>

\* transcribe_batch_whisper: a pool worker takes the oldest queued download.
SC_Dl_Start(v) ==
    /\ pc = "sc_p2_dl"
    /\ v = FirstQueued(to_process, dlTask)
    /\ Cardinality({x \in Videos : dlTask[x] = "running"}) < max_workers
    /\ IF AudioExists(v)
       THEN /\ dlTask' = [dlTask EXCEPT ![v] = "finished"]
            /\ dlRet' = [dlRet EXCEPT ![v] = TRUE]
            /\ dlCalls' = dlCalls
       ELSE /\ dlTask' = [dlTask EXCEPT ![v] = "running"]
            /\ dlRet' = dlRet
            /\ dlCalls' = [dlCalls EXCEPT ![v] = @ + 1]
    /\ UNCHANGED <<fsVars, argVars, pc, batchVars, tvVars, wVars, capCalls, sttCalls,
                   answers, lastCaption, initVars, envVars, exVars, scVars, tbVars,
                   aggVars, clVars, cuVars>>

\* The subprocess of a running download ends (or its timeout expires).
SC_Dl_Finish(v) ==
    /\ pc = "sc_p2_dl"
    /\ dlTask[v] = "running"
    /\ \E ans \in DownloadAnswers, size \in AudioSizes :
        LET d == download_audio(v, ans, size) IN
        /\ audioDir' = d.dir
        /\ dlRet' = [dlRet EXCEPT ![v] = d.path]
        /\ answers' = [answers EXCEPT ![v].download = IF d.path THEN "ok" ELSE "failed"]
    /\ dlTask' = [dlTask EXCEPT ![v] = "finished"]
    /\ UNCHANGED <<transcriptsDir, argVars, pc, batchVars, tvVars, wVars, callVars,
                   lastCaption, initVars, envVars, exVars, scVars, tbVars, aggVars,
                   clVars, cuVars>>

\* as_completed(future_to_video) yields a finished download: keep the audio
\* file, or append the failure to failed_videos.
SC_P2_DownloadDone(v) ==
    /\ pc = "sc_p2_dl"
    /\ dlTask[v] = "finished"
    /\ dlTask' = [dlTask EXCEPT ![v] = "consumed"]
    /\ IF dlRet[v]
       THEN /\ audio_files' = Append(audio_files, v)
            /\ failed_videos' = failed_videos
       ELSE /\ failed_videos' =
                  Append(failed_videos, Failure(v, "Failed to download audio"))
            /\ audio_files' = audio_files
    /\ UNCHANGED <<fsVars, argVars, pc, i, results, needs_whisper, tvVars, dlRet,
                   wVars, callVars, answers, lastCaption, initVars, envVars, exVars, transcripts,
                   to_process, progressFile, saving, tbVars, aggVars, clVars, cuVars>>

\* The download pool is drained: submit transcribe_single per audio file.
SC_P2_Submit ==
    /\ pc = "sc_p2_dl"
    /\ PoolDrained(to_process, dlTask)
    /\ wTask' = [v \in Videos |->
                    IF v \in Range(audio_files) THEN "queued" ELSE wTask[v]]
    /\ pc' = "sc_p2_stt"
    /\ UNCHANGED <<fsVars, argVars, batchVars, tvVars, dlVars, wCur, wRet, callVars,
                   answers, lastCaption, initVars, envVars, exVars, scVars, tbVars,
                   aggVars, clVars, cuVars>>

\* transcribe_single in a pool worker: the size check, then the request sent.
SC_W_Start(v) ==
    /\ mode = "sc_all"
    /\ wTask[v] = "queued"
    /\ v = FirstQueued(audio_files, wTask)
    /\ Cardinality({x \in Videos : wTask[x] = "running"}) < max_workers
    /\ IF TooLarge(audioDir[v])
       THEN /\ wTask' = [wTask EXCEPT ![v] = "finished"]
            /\ wRet' = [wRet EXCEPT ![v] = NoTranscript]
            /\ UNCHANGED <<sttCalls, api_key, answers>>
       ELSE \E key \in KeysFound :
             /\ api_key' = key
             /\ IF key = "set"
                THEN /\ wTask' = [wTask EXCEPT ![v] = "running"]
                     /\ sttCalls' = [sttCalls EXCEPT ![v] = @ + 1]
                     /\ UNCHANGED <<wRet, answers>>
                ELSE /\ wTask' = [wTask EXCEPT ![v] = "finished"]
                     /\ wRet' = [wRet EXCEPT ![v] = NoTranscript]
                     /\ answers' = [answers EXCEPT ![v].stt = "Exception"]
                     /\ sttCalls' = sttCalls
    /\ UNCHANGED <<fsVars, mode, use_whisper, start_from, max_workers, pc, batchVars,
                   tvVars, dlVars, wCur, capCalls, dlCalls, lastCaption, initVars,
                   exit_code, exVars, scVars, tbVars, aggVars, clVars, cuVars>>

\* Mutant of SC_W_Response: the worker itself records its result in the shared
\* collections and calls _save_progress.
SC_W_ResponseCheckpoints(v) ==
    /\ mode = "sc_all"
    /\ wTask[v] = "running"
    /\ \E ans \in {"response", "Exception"} :
        /\ answers' = [answers EXCEPT ![v].stt = ans]
        /\ IF ans = "response"
           THEN /\ transcriptsDir' = WriteFile(transcriptsDir, v, Transcript(v, "whisper"))
                /\ wRet' = [wRet EXCEPT ![v] = Transcript(v, "whisper")]
                /\ transcripts' = DictSet(transcripts, v, Transcript(v, "whisper"))
                /\ failed_videos' = failed_videos
           ELSE /\ wRet' = [wRet EXCEPT ![v] = NoTranscript]
                /\ transcriptsDir' = transcriptsDir
                /\ transcripts' = transcripts
                /\ failed_videos' = Append(failed_videos, Failure(v, "Exception"))
    /\ saving' = [t \in DOMAIN saving \cup {v} |->
                     IF t = v THEN ProgressOf(transcripts', failed_videos')
                              ELSE saving[t]]
    /\ wTask' = [wTask EXCEPT ![v] = "finished"]
    /\ UNCHANGED <<audioDir, argVars, pc, batchVars, tvVars, dlVars, wCur, callVars,
                   lastCaption, initVars, envVars, exVars, to_process, progressFile,
                   tbVars, aggVars, clVars, cuVars>>

\* Mutant of SC_W_Response: the transcript of a response is returned without
\* save_transcript.
SC_W_ResponseNoSave(v) ==
    /\ mode = "sc_all"
    /\ wTask[v] = "running"
    /\ \E ans \in {"response", "Exception"} :
        /\ answers' = [answers EXCEPT ![v].stt = ans]
        /\ wRet' = [wRet EXCEPT ![v] =
                      IF ans = "response" THEN Transcript(v, "whisper") ELSE NoTranscript]
    /\ wTask' = [wTask EXCEPT ![v] = "finished"]
    /\ UNCHANGED <<fsVars, argVars, pc, batchVars, tvVars, dlVars, wCur, callVars,
                   lastCaption, initVars, envVars, exVars, scVars, tbVars, aggVars,
                   clVars, cuVars>>

\* transcribe_single in a pool worker: the request answers; a response is
\* saved with save_transcript and returned, an exception is returned as text.
SC_W_Response(v) ==
    /\ mode = "sc_all"
    /\ wTask[v] = "running"
    /\ \E ans \in {"response", "Exception"} :
        /\ answers' = [answers EXCEPT ![v].stt = ans]
        /\ IF ans = "response"
           THEN /\ transcriptsDir' = WriteFile(transcriptsDir, v, Transcript(v, "whisper"))
                /\ wRet' = [wRet EXCEPT ![v] = Transcript(v, "whisper")]
           ELSE /\ wRet' = [wRet EXCEPT ![v] = NoTranscript]
                /\ transcriptsDir' = transcriptsDir
    /\ wTask' = [wTask EXCEPT ![v] = "finished"]
    /\ UNCHANGED <<audioDir, argVars, pc, batchVars, tvVars, dlVars, wCur, callVars,
                   lastCaption, initVars, envVars, exVars, scVars, tbVars, aggVars,
                   clVars, cuVars>>

\* as_completed(futures) yields a finished transcribe_single: put the
\* transcript in the dict or append the failure, then call _save_progress.
SC_P2_WhisperDone(v) ==
    /\ pc = "sc_p2_stt"
    /\ wTask[v] = "finished"
    /\ wTask' = [wTask EXCEPT ![v] = "consumed"]
    /\ IF wRet[v] # NoTranscript
       THEN /\ transcripts' = DictSet(transcripts, v, wRet[v])
            /\ failed_videos' = failed_videos
       ELSE /\ failed_videos' = Append(failed_videos,
                  Failure(v, IF TooLarge(audioDir[v]) THEN "File too large"
                                                      ELSE "Exception"))
            /\ transcripts' = transcripts
    /\ pc' = "sc_save"
    /\ UNCHANGED <<fsVars, argVars, batchVars, tvVars, dlVars, wCur, wRet, callVars,
                   answers, lastCaption, initVars, envVars, exVars, to_process, progressFile, saving,
                   tbVars, aggVars, clVars, cuVars>>

\* The transcription pool is drained: summary, return transcripts.
SC_P2_Return ==
    /\ pc = "sc_p2_stt"
    /\ PoolDrained(audio_files, wTask)
    /\ pc' = "done"
    /\ UNCHANGED <<fsVars, argVars, batchVars, tvVars, dlVars, wVars, callVars,
                   answers, lastCaption, initVars, envVars, exVars, scVars, tbVars,
                   aggVars, clVars, cuVars>>

NextSC ==
    \/ SC_Call_transcribe_all
    \/ SC_Call_transcribe_video
    \/ SC_TV_Fetch
    \/ SC_Whisper_Download
    \/ SC_Whisper_Response
    \/ SC_TV_Return
    \/ SC_Loop_Collect
    \/ SP_Begin
    \/ SC_P2_Submit
    \/ SC_P2_Return
    \/ \E v \in Videos :
        \/ SC_Dl_Start(v)
        \/ SC_Dl_Finish(v)
        \/ SC_P2_DownloadDone(v)
        \/ SC_W_Start(v)
        \/ SC_W_Response(v)
        \/ SC_P2_WhisperDone(v)
    \/ \E t \in {MainThread} \cup Videos : SP_Write(t)

SpecSC == Init /\ [][NextSC]_vars

\* --------------------------------------------- Part III: the extractors
\* models.Startup, reduced to what tells startups apart. The id is
\* md5(f"{video_id}_{name}_{index}")[:12]: the three values it is made from.
Startup(v, name, index) == [id |-> <<v, name, index>>, name |-> name, video_id |-> v]

\* Python's None where a Startup is expected.
NoStartup == [id |-> <<>>, name |-> "None", video_id |-> 0]

\* The elements a model may put in its list. An object has a name ("None" when
\* the key is missing) and fields of the types models.Startup declares, or not
\* (typed = FALSE: say "sharks" is a string, or "description" is null).
RawObject(name, typed) == [shape |-> "object", name |-> name, typed |-> typed]
NotAnObject == [shape |-> "string", name |-> "None", typed |-> TRUE]
RawRecords == {RawObject("A", TRUE), RawObject("B", TRUE), RawObject("None", TRUE),
               RawObject("", TRUE), RawObject("A", FALSE), NotAnObject}

RecordLists == UNION {[1..n -> RawRecords] : n \in 0..MaxRecords}

\* The ways a response can present a list of records: the bare JSON list, an
\* object holding it under "startups", and each of the two inside a fenced
\* code block.
Presentations == {"list", "object", "fenced_list", "fenced_object"}

\* message.content: the text of a presentation of a record list.
Content(p, records) ==
    [fenced |-> p \in {"fenced_list", "fenced_object"},
     container |-> IF p \in {"list", "fenced_list"} THEN "list" ELSE "dict",
     records |-> records]

\* An empty message.content.
EmptyContent == [fenced |-> FALSE, container |-> "empty", records |-> <<>>]

\* Record lists for the responses of a sweep: none, one, two, one without a
\* name before a good one, and one that is not an object.
SweepLists ==
    {<<>>,
     <<RawObject("A", TRUE)>>,
     <<RawObject("A", TRUE), RawObject("B", TRUE)>>,
     <<RawObject("None", TRUE), RawObject("B", TRUE)>>,
     <<NotAnObject>>}

\* client.chat.completions.create raises instead of answering.
Raises == [fenced |-> FALSE, container |-> "raises", records |-> <<>>]

\* What client.chat.completions.create can do: raise, or answer with a content.
ModelAnswers ==
    {Raises, EmptyContent}
        \cup {Content(p, r) : p \in Presentations, r \in SweepLists}

\* json.loads(content): a text that begins with a code fence is not a JSON
\* document, JSONDecodeError is raised.
json_loads(content) ==
    IF content.fenced
    THEN [raised |-> TRUE, container |-> "None", records |-> <<>>]
    ELSE [raised |-> FALSE, container |-> content.container, records |-> content.records]

\* _parse_startup(data, video, index): data.get raises on what is not a dict;
\* None without a name; Startup(...) raises ValidationError on a field of the
\* wrong type.
parse_startup(data, v, index) ==
    IF data.shape # "object" THEN [raised |-> TRUE, value |-> NoStartup]
    ELSE IF data.name \in {"None", ""} THEN [raised |-> FALSE, value |-> NoStartup]
    ELSE IF ~data.typed THEN [raised |-> TRUE, value |-> NoStartup]
    ELSE [raised |-> FALSE, value |-> Startup(v, data.name, index)]

\* Mutant of ParseAll: a record on which _parse_startup raises ends the loop
\* and the startups parsed before it are kept.
RECURSIVE ParseAllKeepsPrefix(_, _, _)
ParseAllKeepsPrefix(records, v, n) ==
    IF n = 0 THEN [raised |-> FALSE, startups |-> <<>>]
    ELSE LET before == ParseAllKeepsPrefix(records, v, n - 1)
             one == parse_startup(records[n], v, n - 1)
         IN  IF one.raised \/ one.value = NoStartup THEN before
             ELSE [raised |-> FALSE, startups |-> Append(before.startups, one.value)]

\* The loop "for i, s in enumerate(startups_data)" over the first n records:
\* the startups appended, and whether _parse_startup raised on the way.
RECURSIVE ParseAll(_, _, _)
ParseAll(records, v, n) ==
    IF n = 0 THEN [raised |-> FALSE, startups |-> <<>>]
    ELSE LET before == ParseAll(records, v, n - 1)
             one == parse_startup(records[n], v, n - 1)
         IN  IF before.raised \/ one.raised
             THEN [raised |-> TRUE, startups |-> <<>>]
             ELSE IF one.value = NoStartup THEN before
             ELSE [raised |-> FALSE, startups |-> Append(before.startups, one.value)]

\* "cached = self._load_from_cache(video_id); if cached:" -- the file exists
\* and the list decoded from it is not empty.
CacheHit(cache, v) == v \in DOMAIN cache /\ cache[v] # <<>>

\* Mutant of extract_startups: an exception of the remote call is not caught.
extract_startups_uncaught(v, cache, answer) ==
    IF CacheHit(cache, v)
    THEN [ret |-> cache[v], cache |-> cache, called |-> FALSE, raised |-> FALSE]
    ELSE [ret |-> <<>>, cache |-> cache, called |-> TRUE, raised |-> answer = Raises]

\* extract_startups(transcript, video) on the extraction cache `cache`, given
\* what the remote model does: the returned list, the cache afterwards,
\* whether the request was made, and whether the call raised.
extract_startups(v, cache, answer) ==
    IF CacheHit(cache, v)
    THEN [ret |-> cache[v], cache |-> cache, called |-> FALSE, raised |-> FALSE]
    ELSE IF answer = Raises \/ answer = EmptyContent
    THEN [ret |-> <<>>, cache |-> cache, called |-> TRUE, raised |-> FALSE]
    ELSE LET data == json_loads(answer)
             parsed == ParseAll(data.records, v, Len(data.records))
         IN  IF data.raised \/ parsed.raised
             THEN [ret |-> <<>>, cache |-> cache, called |-> TRUE, raised |-> FALSE]
             ELSE [ret |-> parsed.startups,
                   cache |-> [n \in DOMAIN cache \cup {v} |->
                                IF n = v THEN parsed.startups ELSE cache[n]],
                   called |-> TRUE, raised |-> FALSE]

\* The extraction cache an earlier run may have left for a video: no file, the
\* empty list (no startup was found), or a list of one startup.
InitEx ==
    /\ InitFilesFrom({"absent"})
    /\ InitProcess
    /\ transcripts0 = transcriptsDir
    /\ audio0 = audioDir
    /\ interrupted = FALSE
    /\ persistedBefore = {}
    /\ InitExtractor
    /\ \E kinds \in [Videos -> {"absent", "empty", "list"}] :
          extraction_cache =
              [v \in {x \in Videos : kinds[x] # "absent"} |->
                  IF kinds[v] = "empty" THEN <<>> ELSE <<Startup(v, "A", 0)>>]
    /\ cache0 = extraction_cache
    /\ analyses_cache = <<>>

\* scraper main: extractor.extract_all(transcripts, videos_dict), with a
\* transcript and a video for every item.
EX_Call_extract_all ==
    /\ pc = "start"
    /\ mode' = "ex_all"
    /\ pc' = "ex_loop"
    /\ i' = 0
    /\ UNCHANGED <<fsVars, use_whisper, start_from, max_workers, results,
                   needs_whisper, audio_files, tvVars, dlVars, wVars, callVars,
                   answers, lastCaption, initVars, envVars, exVars, scVars, tbVars,
                   aggVars, clVars, cuVars>>

\* One turn of the loop of extract_all: extract_startups for the next item,
\* then all_startups.extend(startups).
EX_Extract ==
    /\ pc = "ex_loop"
    /\ i < NumVideos
    /\ \E answer \in ModelAnswers :
        LET v == i + 1
            r == extract_startups(v, extraction_cache, answer)
        IN
        /\ exCalls' = IF r.called THEN [exCalls EXCEPT ![v] = @ + 1] ELSE exCalls
        /\ exAnswer' = IF ~r.called THEN exAnswer
                       ELSE [exAnswer EXCEPT ![v] =
                               IF answer = Raises THEN "raised"
                               ELSE IF answer = EmptyContent THEN "empty"
                               ELSE "content"]
        /\ IF r.raised
           THEN /\ pc' = "raised"
                /\ UNCHANGED <<extraction_cache, exRet, all_startups, i>>
           ELSE /\ extraction_cache' = r.cache
                /\ exRet' = [exRet EXCEPT ![v] = Returned(r.ret)]
                /\ all_startups' = all_startups \o r.ret
                /\ i' = i + 1
                /\ pc' = pc
    /\ UNCHANGED <<fsVars, argVars, results, needs_whisper, audio_files, tvVars,
                   dlVars, wVars, callVars, answers, lastCaption, initVars, envVars,
                   cache0, analyses, exRecords, exTried, scVars, tbVars, aggVars,
                   clVars, cuVars>>

\* extract_all: the loop is over, return all_startups.
EX_Return ==
    /\ pc = "ex_loop"
    /\ i = NumVideos
    /\ pc' = "done"
    /\ UNCHANGED <<fsVars, argVars, batchVars, tvVars, dlVars, wVars, callVars,
                   answers, lastCaption, initVars, envVars, exVars, scVars, tbVars,
                   aggVars, clVars, cuVars>>

\* What the model can answer to analyze_video of the fireship analyzer: raise,
\* the JSON object asked for, the same inside a code fence, a text that is not
\* JSON, or a JSON object VideoAnalysis does not accept.
AnalysisAnswers == {"raises", "json", "fenced_json", "not_json", "wrong_shape"}

\* ContentExtractor.analyze_video: a leading code fence is cut off, the text
\* is decoded and VideoAnalysis(**data) built; every failure raises.
analyze_video(v, answer) ==
    IF answer \in {"json", "fenced_json"}
    THEN [raised |-> FALSE, value |-> <<v>>]
    ELSE [raised |-> TRUE, value |-> <<>>]

\* fireship main: the individual analyses are to be made (no cached analyses
\* are loaded).
FS_Call_main ==
    /\ pc = "start"
    /\ mode' = "fs_all"
    /\ pc' = "fs_loop"
    /\ i' = 0
    /\ UNCHANGED <<fsVars, use_whisper, start_from, max_workers, results,
                   needs_whisper, audio_files, tvVars, dlVars, wVars, callVars,
                   answers, lastCaption, initVars, envVars, exVars, scVars, tbVars,
                   aggVars, clVars, cuVars>>

\* One turn of "for transcript in transcripts": analyze_video inside try,
\* analyses.append on success, the exception printed otherwise.
FS_Analyze ==
    /\ pc = "fs_loop"
    /\ i < NumVideos
    /\ \E answer \in AnalysisAnswers :
        LET v == i + 1
            r == analyze_video(v, answer)
        IN
        /\ exCalls' = [exCalls EXCEPT ![v] = @ + 1]
        /\ exAnswer' = [exAnswer EXCEPT ![v] =
                          IF answer = "raises" THEN "raised" ELSE "content"]
        /\ exRet' = [exRet EXCEPT ![v] = Returned(r.value)]
        /\ analyses' = IF r.raised THEN analyses ELSE analyses \o r.value
    /\ i' = i + 1
    /\ UNCHANGED <<fsVars, argVars, pc, results, needs_whisper, audio_files, tvVars,
                   dlVars, wVars, callVars, answers, lastCaption, initVars, envVars,
                   extraction_cache, cache0, all_startups, exRecords, exTried, scVars,
                   tbVars, aggVars, clVars, cuVars>>

\* fireship main: the loop is over, the analyses are cached.
FS_LoopEnd ==
    /\ pc = "fs_loop"
    /\ i = NumVideos
    /\ pc' = "done"
    /\ UNCHANGED <<fsVars, argVars, batchVars, tvVars, dlVars, wVars, callVars,
                   answers, lastCaption, initVars, envVars, exVars, scVars, tbVars,
                   aggVars, clVars, cuVars>>

NextEx ==
    \/ EX_Call_extract_all
    \/ EX_Extract
    \/ EX_Return
    \/ FS_Call_main
    \/ FS_Analyze
    \/ FS_LoopEnd

SpecEx == InitEx /\ [][NextEx]_vars

\* ------------------------------------ Part II-b: one run of fireship main
\* The analyses_cache.json a run can find: missing, or a list of the analyses
\* an earlier run cached (the empty list included).
CachedAnalyses ==
    {<<>>} \cup {<<SubSeq(<<1, 2, 3, 4>>, 1, k)>> : k \in 0..(NumVideos - 1)}

InitFS ==
    /\ InitFilesFrom({"absent"})
    /\ InitProcess
    /\ transcripts0 = transcriptsDir
    /\ audio0 = audioDir
    /\ interrupted = FALSE
    /\ persistedBefore = {}
    /\ InitExtractor
    /\ extraction_cache = [v \in {} |-> <<>>]
    /\ cache0 = extraction_cache
    /\ analyses_cache \in CachedAnalyses

\* fireship main up to the loop: n transcripts are loaded (the average over
\* none divides by zero), analyses = []; with a cache file and
\* --skip-individual the cached analyses are loaded instead of the loop.
FS_Main ==
    /\ pc = "start"
    /\ \E skip_individual \in BOOLEAN, n \in 0..NumVideos :
        /\ mode' = IF skip_individual THEN "fs_main_skip_individual" ELSE "fs_main"
        /\ IF n = 0
           THEN /\ pc' = "raised"
                /\ UNCHANGED <<i, analyses>>
           ELSE IF analyses_cache # <<>> /\ skip_individual
           THEN /\ analyses' = analyses_cache[1]
                /\ pc' = "fs_aggregate"
                /\ UNCHANGED i
           ELSE /\ i' = NumVideos - n
                /\ pc' = "fs_loop"
                /\ UNCHANGED analyses
    /\ UNCHANGED <<fsVars, use_whisper, start_from, max_workers, results,
                   needs_whisper, audio_files, tvVars, dlVars, wVars, callVars,
                   answers, lastCaption, initVars, envVars, extraction_cache, cache0,
                   all_startups, exCalls, exAnswer, exRet, exRecords, exTried,
                   scVars, tbVars, aggVars, clVars, cuVars>>

\* fireship main: the loop is over, the analyses made are written to the
\* cache file.
FS_CacheAnalyses ==
    /\ pc = "fs_loop"
    /\ i = NumVideos
    /\ analyses_cache' = <<analyses>>
    /\ pc' = "fs_aggregate"
    /\ UNCHANGED <<fsVars, argVars, batchVars, tvVars, dlVars, wVars, callVars,
                   answers, lastCaption, initVars, envVars, exVars, scVars, tbVars,
                   guidelineCalls, clVars, cuVars>>

\* As FS_Aggregate, but without "if not analyses: return".
FS_AggregateAlways ==
    /\ pc = "fs_aggregate"
    /\ guidelineCalls' = guidelineCalls + 1
    /\ \E answer \in AnalysisAnswers :
          pc' = IF answer \in {"json", "fenced_json"} THEN "done" ELSE "raised"
    /\ UNCHANGED <<fsVars, argVars, batchVars, tvVars, dlVars, wVars, callVars,
                   answers, lastCaption, initVars, envVars, exVars, scVars, tbVars,
                   analyses_cache, clVars, cuVars>>

\* fireship main after the analyses are there: return when there is none,
\* else generate_guidelines(analyses): one request, whose answer is decoded
\* as that of analyze_video and may raise out of main.
FS_Aggregate ==
    /\ pc = "fs_aggregate"
    /\ IF analyses = <<>>
       THEN /\ pc' = "done"
            /\ UNCHANGED guidelineCalls
       ELSE /\ guidelineCalls' = guidelineCalls + 1
            /\ \E answer \in AnalysisAnswers :
                  pc' = IF answer \in {"json", "fenced_json"} THEN "done" ELSE "raised"
    /\ UNCHANGED <<fsVars, argVars, batchVars, tvVars, dlVars, wVars, callVars,
                   answers, lastCaption, initVars, envVars, exVars, scVars, tbVars,
                   analyses_cache, clVars, cuVars>>

NextFS ==
    \/ FS_Main
    \/ FS_Analyze
    \/ FS_CacheAnalyses
    \/ FS_Aggregate

SpecFS == InitFS /\ [][NextFS]_vars

\* ------------------------- Part II-c: the lazily constructed OpenAI client
\* The threads of the transcription pool call _get_openai_client, each at most
\* MaxUses times; nothing in the code serialises the calls, so a thread can be
\* preempted between any two of its steps.
InitClient == InitCold

\* "if self._openai_client is None": the field is read; a client that is
\* there is returned, else the thread goes on to construct one.
GC_Check(t) ==
    /\ getting[t].pc = "idle"
    /\ getting[t].uses < MaxUses
    /\ getting' = [getting EXCEPT ![t].pc =
                      IF openai_client = 0 THEN "getenv" ELSE "return"]
    /\ UNCHANGED <<fsVars, argVars, pc, batchVars, tvVars, dlVars, wVars, callVars,
                   answers, lastCaption, initVars, scVars, envVars, exVars, tbVars,
                   aggVars, openai_client, clientsBuilt, clientsUsed, cuVars>>

\* os.getenv("OPENAI_API_KEY"): without a key ValueError leaves the call.
GC_Getenv(t) ==
    /\ getting[t].pc = "getenv"
    /\ \E key \in KeysFound :
        /\ api_key' = key
        /\ getting' = IF key = "set"
                      THEN [getting EXCEPT ![t].pc = "construct"]
                      ELSE [getting EXCEPT ![t].pc = "idle", ![t].uses = @ + 1]
    /\ UNCHANGED <<fsVars, argVars, pc, batchVars, tvVars, dlVars, wVars, callVars,
                   answers, lastCaption, initVars, scVars, exit_code, exVars, tbVars,
                   aggVars, openai_client, clientsBuilt, clientsUsed, cuVars>>

\* OpenAI(api_key=api_key): a new client object, held by the thread.
GC_Construct(t) ==
    /\ getting[t].pc = "construct"
    /\ clientsBuilt' = clientsBuilt + 1
    /\ getting' = [getting EXCEPT ![t].pc = "store", ![t].local = clientsBuilt + 1]
    /\ UNCHANGED <<fsVars, argVars, pc, batchVars, tvVars, dlVars, wVars, callVars,
                   answers, lastCaption, initVars, scVars, envVars, exVars, tbVars,
                   aggVars, openai_client, clientsUsed, cuVars>>

\* "self._openai_client = ...": the field is overwritten with the new object.
GC_Store(t) ==
    /\ getting[t].pc = "store"
    /\ openai_client' = getting[t].local
    /\ getting' = [getting EXCEPT ![t].pc = "return"]
    /\ UNCHANGED <<fsVars, argVars, pc, batchVars, tvVars, dlVars, wVars, callVars,
                   answers, lastCaption, initVars, scVars, envVars, exVars, tbVars,
                   aggVars, clientsBuilt, clientsUsed, cuVars>>

\* "return self._openai_client": the field as it is now goes to the caller.
GC_Return(t) ==
    /\ getting[t].pc = "return"
    /\ clientsUsed' = clientsUsed \cup {openai_client}
    /\ getting' = [getting EXCEPT ![t].pc = "idle", ![t].uses = @ + 1]
    /\ UNCHANGED <<fsVars, argVars, pc, batchVars, tvVars, dlVars, wVars, callVars,
                   answers, lastCaption, initVars, scVars, envVars, exVars, tbVars,
                   aggVars, openai_client, clientsBuilt, cuVars>>

NextClient ==
    \E t \in Workers :
        \/ GC_Check(t)
        \/ GC_Getenv(t)
        \/ GC_Construct(t)
        \/ GC_Store(t)
        \/ GC_Return(t)

SpecClient == InitClient /\ [][NextClient]_vars

\* ------------------------------------------- Part II-d: cleanup_audio
\* What a run can have left in the two directories: per video no transcript,
\* a transcript file cut short, or a transcript of either source; and no
\* audio file or one of either size.
InitCleanup ==
    /\ \E tk \in [Videos -> {"absent", "truncated", "youtube", "whisper"}],
          ak \in [Videos -> {0} \cup AudioSizes] :
        /\ transcriptsDir =
              [v \in {x \in Videos : tk[x] # "absent"} |->
                  IF tk[v] = "truncated" THEN TruncatedJson ELSE Transcript(v, tk[v])]
        /\ audioDir = [v \in {x \in Videos : ak[x] # 0} |-> ak[v]]
    /\ InitProcess
    /\ InitExtractor
    /\ NoExtractionCache
    /\ transcripts0 = transcriptsDir
    /\ audio0 = audioDir
    /\ interrupted = FALSE
    /\ persistedBefore = {}

\* Mutant of transcribed_ids: the names of the transcript files.
transcribed_ids_by_name == DOMAIN transcriptsDir

\* set(self.load_all_transcripts().keys()): the video_id of every transcript
\* file that can be decoded; a file that cannot is printed and left out.
transcribed_ids ==
    {transcriptsDir[n].video_id :
        n \in {x \in DOMAIN transcriptsDir : transcriptsDir[x] # TruncatedJson}}

\* cleanup_audio(keep_failed): every audio/*.mp3 whose stem is in
\* transcribed_ids, or every one when keep_failed is false, is unlinked and
\* counted.
cleanup_audio(keep_failed) ==
    LET unlinked == {v \in DOMAIN audioDir : v \in transcribed_ids \/ ~keep_failed}
    IN  [dir |-> [v \in DOMAIN audioDir \ unlinked |-> audioDir[v]],
         deleted |-> Cardinality(unlinked)]

\* The call made and its return value: <<n>> for an int, <<>> for None.
Cleaned(transcriber, keep_failed, returned) ==
    [transcriber |-> transcriber, keep_failed |-> keep_failed, returned |-> returned]

\* youtube-transcriber: cleanup_audio(keep_failed) returns deleted.
CU_Cleanup ==
    /\ cleaned = <<>>
    /\ \E keep_failed \in BOOLEAN :
        LET c == cleanup_audio(keep_failed) IN
        /\ audioDir' = c.dir
        /\ cleaned' = <<Cleaned("youtube-transcriber", keep_failed, <<c.deleted>>)>>
    /\ UNCHANGED <<transcriptsDir, argVars, pc, batchVars, tvVars, dlVars, wVars,
                   callVars, answers, lastCaption, initVars, scVars, envVars, exVars,
                   tbVars, aggVars, clVars>>

\* scraper: cleanup_audio(keep_failed) prints the number and returns None.
SC_Cleanup ==
    /\ cleaned = <<>>
    /\ \E keep_failed \in BOOLEAN :
        LET c == cleanup_audio(keep_failed) IN
        /\ audioDir' = c.dir
        /\ cleaned' = <<Cleaned("scraper", keep_failed, <<>>)>>
    /\ UNCHANGED <<transcriptsDir, argVars, pc, batchVars, tvVars, dlVars, wVars,
                   callVars, answers, lastCaption, initVars, scVars, envVars, exVars,
                   tbVars, aggVars, clVars>>

NextCleanup == CU_Cleanup \/ SC_Cleanup

SpecCleanup == InitCleanup /\ [][NextCleanup]_vars

\* ------------------------------------- Part III: the parsing of a response
\* The video the presentations of one record list are extracted for.
ProbeVideo == 1

\* What a call of extract_startups left: the list returned, whether the cache
\* entry of the item was written, and the list written.
Tried(r) ==
    [value |-> r.ret,
     cached |-> ProbeVideo \in DOMAIN r.cache,
     entry |-> IF ProbeVideo \in DOMAIN r.cache THEN r.cache[ProbeVideo] ELSE <<>>]

\* Any list of at most MaxRecords records may be what the model lists.
InitParse ==
    /\ InitFilesFrom({"absent"})
    /\ InitProcess
    /\ transcripts0 = transcriptsDir
    /\ audio0 = audioDir
    /\ interrupted = FALSE
    /\ persistedBefore = {}
    /\ InitSweep
    /\ NoExtractionCache
    /\ exRecords \in RecordLists

\* extract_startups is called, on an extractor whose cache is empty, with the
\* model answering the record list in presentation p.
EX_Present(p) ==
    /\ p \notin DOMAIN exTried
    /\ LET r == extract_startups(ProbeVideo, [v \in {} |-> <<>>], Content(p, exRecords))
       IN  exTried' = [q \in DOMAIN exTried \cup {p} |->
                          IF q = p THEN Tried(r) ELSE exTried[q]]
    /\ UNCHANGED <<fsVars, argVars, pc, batchVars, tvVars, dlVars, wVars, callVars,
                   answers, lastCaption, initVars, envVars, extraction_cache, cache0,
                   all_startups, analyses, exCalls, exAnswer, exRet, exRecords, scVars,
                   tbVars, aggVars, clVars, cuVars>>

NextParse == \E p \in Presentations : EX_Present(p)

SpecParse == InitParse /\ [][NextParse]_vars

\* ------------------------------------------- Part IV: building a transcript
\* Language codes of caption tracks.
Languages == {"en", "ar", "de"}

\* The languages argument: a list of one or two language codes (the default
\* is ["en", "ar"]).
PreferenceLists ==
    {<<a>> : a \in Languages} \cup {p \in Languages \X Languages : p[1] # p[2]}

\* Start times and texts of the segments a service returns. Whisper's segment
\* texts begin with a space.
SegmentStarts == 0..1
SegmentTexts == {"a", " b"}

\* A snippet of a fetched caption track; a segment of a verbose_json response.
Snippets == [start : SegmentStarts, duration : {1}, text : SegmentTexts]
SegmentEnds == 1..2
WhisperSegments ==
    {seg \in [start : SegmentStarts, end : SegmentEnds, text : SegmentTexts] :
        seg.start <= seg.end}

\* The lists of at most MaxSegments elements, in the order the service
\* returns them.
ListsOf(S) == UNION {[1..n -> S] : n \in 0..MaxSegments}

\* models.Transcript. An Optional list is <<>> for None and <<list>> otherwise.
FullTranscript(v, text, language, segments, source) ==
    [video_id |-> v, text |-> text, language |-> language,
     segments |-> segments, source |-> source]

NoFullTranscript == FullTranscript(0, "", "None", <<>>, "None")

\* sep.join(texts)
RECURSIVE Join(_, _)
Join(texts, sep) ==
    IF texts = <<>> THEN ""
    ELSE IF Len(texts) = 1 THEN texts[1]
    ELSE texts[1] \o sep \o Join(Tail(texts), sep)

TextsOf(list) == [k \in 1..Len(list) |-> list[k].text]

\* A caption track of the provider's list, or that none was found.
Track(code, generated) == [found |-> TRUE, language_code |-> code, is_generated |-> generated]
NoTrack == [found |-> FALSE, language_code |-> "None", is_generated |-> FALSE]

\* The track lists of a video: the languages with a manually created track
\* and the languages with an auto-generated one.
TrackLists == [manual : SUBSET Languages, generated : SUBSET Languages]

\* TranscriptList.find_transcript(codes): for each code in order, the manually
\* created track of that language, else its generated track.
RECURSIVE find_transcript(_, _)
find_transcript(tl, codes) ==
    IF codes = <<>> THEN NoTrack
    ELSE IF Head(codes) \in tl.manual THEN Track(Head(codes), FALSE)
    ELSE IF Head(codes) \in tl.generated THEN Track(Head(codes), TRUE)
    ELSE find_transcript(tl, Tail(codes))

\* TranscriptList.find_generated_transcript(codes): the generated track of the
\* first code that has one.
RECURSIVE find_generated_transcript(_, _)
find_generated_transcript(tl, codes) ==
    IF codes = <<>> THEN NoTrack
    ELSE IF Head(codes) \in tl.generated THEN Track(Head(codes), TRUE)
    ELSE find_generated_transcript(tl, Tail(codes))

\* "for lang in languages: try find_transcript([lang]) ... break": the track
\* found and the value of the local "language".
RECURSIVE PreferredTrack(_, _)
PreferredTrack(tl, languages) ==
    IF languages = <<>> THEN [track |-> NoTrack, language |-> "None"]
    ELSE LET t == find_transcript(tl, <<Head(languages)>>) IN
         IF t.found THEN [track |-> t, language |-> Head(languages)]
         ELSE PreferredTrack(tl, Tail(languages))

\* Mutant of SelectTrack: the returned transcript is always labelled with the
\* first language of the list.
SelectTrackFirstLabel(tl, languages) ==
    [track |-> PreferredTrack(tl, languages).track, language |-> languages[1]]

\* The track get_youtube_transcript fetches and the language it records: the
\* preferred track, else the generated one with language = languages[0].
SelectTrack(tl, languages) ==
    LET first == PreferredTrack(tl, languages) IN
    IF first.track.found THEN first
    ELSE [track |-> find_generated_transcript(tl, languages),
          language |-> languages[1]]

\* What the caption provider answers to list() and fetch().
CaptionFailures == {"TranscriptsDisabled", "VideoUnavailable", "Exception"}

\* get_youtube_transcript with everything it returns kept: the track fetched
\* and the Transcript built from its snippets, in the order fetch() gave them.
youtube_transcript(v, languages, listing, tl, snippets) ==
    LET sel == SelectTrack(tl, languages) IN
    IF listing \in CaptionFailures \/ ~sel.track.found
    THEN [track |-> NoTrack, transcript |-> NoFullTranscript]
    ELSE [track |-> sel.track,
          transcript |->
              FullTranscript(v, Join(TextsOf(snippets), " "), sel.language,
                             <<[k \in 1..Len(snippets) |->
                                   [start |-> snippets[k].start,
                                    duration |-> snippets[k].duration,
                                    text |-> snippets[k].text]]>>,
                             "youtube")]

\* The text of a verbose_json response whose segments are segs: the segment
\* texts joined by spaces, or put one after the other as they are.
ResponseTexts(segs) == {Join(TextsOf(segs), " "), Join(TextsOf(segs), "")}

\* Mutant of whisper_transcript: the duration of a segment is its end.
whisper_transcript_duration_is_end(v, language, text, segs) ==
    LET segments == [k \in 1..Len(segs) |->
                        [start |-> segs[k].start,
                         duration |-> segs[k].end,
                         text |-> segs[k].text]]
    IN  FullTranscript(v, text, language,
                       IF segments = <<>> THEN <<>> ELSE <<segments>>, "whisper")

\* The parsing of the response in transcribe_with_whisper: text taken from
\* response.text, the segments copied in the order of response.segments, None
\* for an empty list.
whisper_transcript(v, language, text, segs) ==
    LET segments == [k \in 1..Len(segs) |->
                        [start |-> segs[k].start,
                         duration |-> segs[k].end - segs[k].start,
                         text |-> segs[k].text]]
    IN  FullTranscript(v, text, language,
                       IF segments = <<>> THEN <<>> ELSE <<segments>>, "whisper")

\* What a build left: the arguments, the track lists of the video, the track
\* fetched, the segments in the order the service returned them, the value
\* returned and the file save_transcript wrote (<<>> when nothing was saved).
Built(languages, tl, track, returned, transcript, file) ==
    [languages |-> languages, tracks |-> tl, track |-> track, returned |-> returned,
     transcript |-> transcript, file |-> file]

InitBuild ==
    /\ InitFilesFrom({"absent"})
    /\ InitProcess
    /\ InitExtractor
    /\ NoExtractionCache
    /\ transcripts0 = transcriptsDir
    /\ audio0 = audioDir
    /\ interrupted = FALSE
    /\ persistedBefore = {}

\* transcribe_video on the caption path: get_youtube_transcript, then
\* save_transcript when a transcript came back.
TB_Captions ==
    /\ built = <<>>
    /\ \E languages \in PreferenceLists, tl \in TrackLists, snippets \in ListsOf(Snippets),
          listing \in {"list"} \cup CaptionFailures :
        /\ listing # "list" => (tl.manual = {} /\ tl.generated = {} /\ snippets = <<>>)
        /\ ~SelectTrack(tl, languages).track.found => snippets = <<>>
        /\ LET r == youtube_transcript(ProbeVideo, languages, listing, tl, snippets) IN
           built' = [p \in {"youtube"} |->
                       Built(languages, tl, r.track, snippets, r.transcript,
                             IF r.transcript = NoFullTranscript THEN <<>>
                             ELSE <<r.transcript>>)]
    /\ UNCHANGED <<fsVars, argVars, pc, batchVars, tvVars, dlVars, wVars, callVars,
                   answers, lastCaption, initVars, envVars, exVars, scVars, aggVars,
                   clVars, cuVars>>

\* transcribe_with_whisper from the response on: the Transcript is built and
\* saved at once.
TB_Whisper ==
    /\ built = <<>>
    /\ \E segs \in ListsOf(WhisperSegments) :
        \E text \in ResponseTexts(segs) :
            LET t == whisper_transcript(ProbeVideo, "en", text, segs) IN
            built' = [p \in {"whisper"} |->
                        Built(<<"en">>, [manual |-> {}, generated |-> {}], NoTrack,
                              segs, t, <<t>>)]
    /\ UNCHANGED <<fsVars, argVars, pc, batchVars, tvVars, dlVars, wVars, callVars,
                   answers, lastCaption, initVars, envVars, exVars, scVars, aggVars,
                   clVars, cuVars>>

NextBuild == TB_Captions \/ TB_Whisper

SpecBuild == InitBuild /\ [][NextBuild]_vars

\* ------------------------------------------------------------ properties
\* Answers of the caption provider that mean "no native captions".
NoCaptionAnswers == {"NoTranscriptFound", "TranscriptsDisabled", "VideoUnavailable"}

\* C1 -- transcribe_video on a video whose transcript is already persisted
\* returns success carrying exactly the persisted transcript, issues no caption
\* request, no audio download and no speech-to-text request for it, and leaves
\* the cache as it was (so a second call on the warm cache returns the same).
C1_WarmCacheHit ==
    \A v \in DOMAIN transcripts0 :
        transcripts0[v] # TruncatedJson =>
            /\ capCalls[v] = 0 /\ dlCalls[v] = 0 /\ sttCalls[v] = 0
            /\ TranscriptExists(v) /\ transcriptsDir[v] = transcripts0[v]
            /\ (pc = "tv_ret" /\ curVideo = v) =>
                  /\ ret.success
                  /\ ret.transcript = transcripts0[v]
                  /\ (mode = "single" =>
                         transcriptsDir = transcripts0 /\ audioDir = audio0)

\* A direct call with use_whisper=True returned a cached Whisper transcript.
C1_Witness ==
    /\ pc = "tv_ret" /\ mode = "single" /\ tvUseWhisper
    /\ curVideo \in DOMAIN transcripts0
    /\ ret.success /\ ret.transcript = Transcript(curVideo, "whisper")

\* C2 -- transcribe_video with use_whisper=False on a video with no cached
\* transcript and no native captions (no track, captions disabled, video
\* unavailable) returns success=False with needs_whisper=True and has no side
\* effect: no download, no speech-to-text request, no transcript or audio file.
C2_NeedsWhisperNoSideEffects ==
    (/\ pc = "tv_ret" /\ ~tvUseWhisper
     /\ curVideo \notin DOMAIN transcripts0
     /\ lastCaption \in NoCaptionAnswers)
    => /\ ~ret.success /\ ret.needs_whisper /\ ret.transcript = NoTranscript
       /\ dlCalls[curVideo] = 0 /\ sttCalls[curVideo] = 0
       /\ ~TranscriptExists(curVideo)
       /\ (AudioExists(curVideo) <=> curVideo \in DOMAIN audio0)
       /\ (mode = "single" =>
              /\ transcriptsDir = transcripts0 /\ audioDir = audio0
              /\ \A v \in Videos : dlCalls[v] = 0 /\ sttCalls[v] = 0)

\* A direct call answered "captions disabled" returned needs_whisper.
C2_Witness ==
    /\ pc = "tv_ret" /\ mode = "single" /\ ~tvUseWhisper
    /\ lastCaption = "TranscriptsDisabled"
    /\ ret.needs_whisper /\ ~ret.success

\* C4 -- persist before report: at every point of a transcribe_all run, every
\* outcome already in results with success=True has its transcript persisted
\* under transcripts/{video_id}.json, with the content reported.
C4_PersistBeforeReport ==
    \A k \in 1..Len(results) :
        results[k].success =>
            /\ Persisted(results[k].video)
            /\ transcriptsDir[results[k].video] = results[k].transcript

\* Mid-batch: a Whisper success is reported while another item is still queued
\* or in flight.
C4_Witness ==
    /\ mode = "all" /\ pc = "p2_stt"
    /\ \E k \in 1..Len(results) :
          results[k].success /\ results[k].transcript.source = "whisper"
    /\ \E v \in Videos : wTask[v] \in {"queued", "running"}

\* The call is over: it returned, or an exception left it.
CallOver == pc \in {"done", "raised"}

\* Indices of the outcomes reported for video v.
OutcomesOf(v) == {k \in 1..Len(results) : results[k].video = v}

\* The cache entry of video v, None when there is no file.
CacheEntry(v) == IF TranscriptExists(v) THEN transcriptsDir[v] ELSE NoTranscript

\* Video v has audio the speech-to-text step accepts.
AudioAccepted(v) == AudioExists(v) /\ ~TooLarge(audioDir[v])

\* The second pass was asked for v and got an answer from Whisper.
WhisperAnswered(v) ==
    /\ use_whisper
    /\ answers[v].captions = "absent"
    /\ AudioAccepted(v)
    /\ answers[v].stt = "response"

\* Whether video v ends with a transcript, as a function of what was cached
\* for v when the run started and of what the remote operations answered for v
\* alone (not of start_from, max_workers, the other items or any order).
ExpectedSuccess(v) ==
    \/ v \in DOMAIN transcripts0
    \/ answers[v].captions = "track"
    \/ WhisperAnswered(v)

\* The cache entry the same determines for v.
ExpectedEntry(v) ==
    IF v \in DOMAIN transcripts0 THEN transcripts0[v]
    ELSE IF answers[v].captions = "track" THEN Transcript(v, "youtube")
    ELSE IF WhisperAnswered(v) THEN Transcript(v, "whisper")
    ELSE NoTranscript

\* Video f failed in the second pass: download, size check or Whisper request.
FailedInPhase2(f) ==
    \/ answers[f].download = "failed"
    \/ AudioExists(f) /\ TooLarge(audioDir[f])
    \/ answers[f].stt = "Exception"

\* C6 -- partial-failure isolation in the second pass of transcribe_all: when
\* the download or the speech-to-text call of one candidate fails, every other
\* candidate is still downloaded and (with accepted audio) has its own
\* speech-to-text call run to its answer, with one request sent when the
\* client could be constructed, and its outcome is the one its own answers
\* determine.
C6_PartialFailureIsolation ==
    (mode = "all" /\ use_whisper /\ CallOver) =>
        \A f \in Range(needs_whisper) :
            FailedInPhase2(f) =>
                \A v \in Range(needs_whisper) \ {f} :
                    /\ dlTask[v] = "consumed"
                    /\ AudioAccepted(v) =>
                          /\ wTask[v] = "consumed"
                          /\ answers[v].stt \in {"response", "Exception"}
                          /\ sttCalls[v] = (IF api_key = "set" THEN 1 ELSE 0)
                    /\ Cardinality(OutcomesOf(v)) = 1
                    /\ \A k \in OutcomesOf(v) :
                          results[k].success = ExpectedSuccess(v)

\* A finished run in which one candidate failed to download, another failed
\* in Whisper, and a third was transcribed.
C6_Witness ==
    /\ mode = "all" /\ use_whisper /\ pc = "done"
    /\ \E f, g, v \in Range(needs_whisper) :
          /\ answers[f].download = "failed"
          /\ answers[g].stt = "Exception"
          /\ \E k \in OutcomesOf(v) :
                results[k].success /\ results[k].transcript = Transcript(v, "whisper")

\* C7 -- resume correctness of transcribe_all: a run with start_from = k issues
\* remote operations and returns outcomes only for positions after the first
\* k, neither creates nor changes the cache entries of the first k, returns an
\* outcome for every later position, and leaves for each later position the
\* cache entry that the item's own answers determine, whatever k is (hence the
\* entry a run with start_from = 0 leaves).
C7_ResumeCorrectness ==
    mode = "all" =>
        /\ \A v \in Videos :
              v <= start_from =>
                  /\ capCalls[v] = 0 /\ dlCalls[v] = 0 /\ sttCalls[v] = 0
                  /\ OutcomesOf(v) = {}
                  /\ CacheEntry(v) =
                        (IF v \in DOMAIN transcripts0 THEN transcripts0[v]
                                                       ELSE NoTranscript)
        /\ pc = "done" =>
              \A v \in Videos :
                  v > start_from =>
                      /\ OutcomesOf(v) # {}
                      /\ CacheEntry(v) = ExpectedEntry(v)

\* A finished resumed run: the first item was skipped and has no entry, a
\* later item got one.
C7_Witness ==
    /\ mode = "all" /\ pc = "done" /\ start_from = 1
    /\ ~TranscriptExists(1)
    /\ \E v \in Videos : v > 1 /\ v \notin DOMAIN transcripts0 /\ TranscriptExists(v)

\* C8 -- worker-count and completion-order invariance: when transcribe_all
\* returns, results holds exactly one outcome per processed item, with the
\* success its own fixed answers determine; hence the multiset of
\* (video_id, success), and the success and failure counts, do not depend on
\* max_workers or on the order in which futures complete.
C8_OutcomesIndependentOfWorkers ==
    (mode = "all" /\ pc = "done") =>
        /\ Len(results) = Cardinality({v \in Videos : v > start_from})
        /\ \A v \in Videos :
              v > start_from =>
                  \E k \in OutcomesOf(v) : results[k].success = ExpectedSuccess(v)

\* A finished run with more than one worker whose Whisper outcomes were
\* reported out of submission order.
C8_Witness ==
    /\ mode = "all" /\ pc = "done" /\ max_workers > 1
    /\ \E j, k \in 1..Len(results) :
          /\ j < k /\ results[j].video > results[k].video
          /\ results[j].transcript.source = "whisper"
          /\ ~results[k].success /\ results[k].error = "Whisper transcription failed"

\* C5 -- restart after interruption: when a batch run was interrupted and the
\* batch is run again, the second run issues no caption fetch, no audio
\* download and no speech-to-text request for an item whose transcript was
\* persisted before the interruption, and it does not abort.
C5_RestartNoRepeatNoAbort ==
    (interrupted /\ mode = "all") =>
        /\ \A v \in persistedBefore :
              capCalls[v] = 0 /\ dlCalls[v] = 0 /\ sttCalls[v] = 0
        /\ pc # "raised"

\* A scraper call made with use_whisper = False.
ScraperWithoutWhisper == mode \in {"sc_all", "sc_single"} /\ ~use_whisper

\* C3 -- the scraper, called with use_whisper = False (transcribe_all or
\* transcribe_video), never launches an audio download and never sends a
\* Whisper request for any video, also for a video whose caption fetch
\* returned nothing.
C3_NoWhisperWhenDisabled ==
    ScraperWithoutWhisper =>
        \A v \in Videos : dlCalls[v] = 0 /\ sttCalls[v] = 0

\* The videos that completed in phase 2 of transcribe_batch_whisper so far:
\* by a failed download, a failed transcription or a successful one.
Phase2Completed ==
    {v \in Videos : \/ wTask[v] = "consumed"
                    \/ \E k \in 1..Len(failed_videos) : failed_videos[k].video_id = v}

\* The calling thread of transcribe_batch_whisper is between two items: it is
\* waiting in one of the two as_completed loops, or it has returned.
BetweenItems ==
    /\ mode = "sc_all"
    /\ use_whisper
    /\ pc \in {"sc_p2_dl", "sc_p2_stt", "done"}

\* C9 -- in transcribe_batch_whisper, once a phase-2 item has completed (by
\* download failure, transcription failure or transcription success),
\* transcription_progress.json has been overwritten and its completed_ids and
\* failed list are those of the items completed and failed so far.
C9_CheckpointFresh ==
    (BetweenItems /\ Phase2Completed # {}) =>
        /\ progressFile # <<>>
        /\ progressFile[1].completed_ids = DictKeys(transcripts)
        /\ progressFile[1].failed = failed_videos

\* s is a prefix of t.
IsPrefix(s, t) == Len(s) <= Len(t) /\ \A k \in 1..Len(s) : s[k] = t[k]

\* C10 -- in a batch run with any number of workers, at most one execution of
\* _save_progress is in progress at any time, the collections it read are not
\* changed while it runs, and every completed id and failed entry of the
\* checkpoint on disk is in the collections (so in every later checkpoint).
C10_SingleWriter ==
    /\ Cardinality(DOMAIN saving) <= 1
    /\ \A t \in DOMAIN saving : saving[t] = ProgressOf(transcripts, failed_videos)
    /\ progressFile # <<>> =>
        /\ IsPrefix(progressFile[1].completed_ids, DictKeys(transcripts))
        /\ IsPrefix(progressFile[1].failed, failed_videos)

\* _save_progress is running in the calling thread, with more than one worker,
\* while a worker is inside transcribe_single and an earlier checkpoint with a
\* failed entry is on disk.
C10_Witness ==
    /\ mode = "sc_all"
    /\ use_whisper
    /\ max_workers >= 2
    /\ MainThread \in DOMAIN saving
    /\ \E v \in Videos : wTask[v] = "running"
    /\ progressFile # <<>>
    /\ progressFile[1].failed # <<>>
    /\ progressFile[1] # saving[MainThread]

\* The speech-to-text step of video v has run past its size check: the audio
\* file is there and the call is waiting for Whisper, saving, or has returned.
SttStepRan(v) ==
    /\ AudioExists(v)
    /\ wTask[v] \in {"running", "save", "saving", "finished", "consumed"}

\* C15 -- size ceiling of the speech-to-text step: an audio file larger than
\* 25 MB is rejected without a request to the service and without the client
\* being constructed on its account; an audio file of 25 MB or less always
\* has the client asked for, and a request is sent for it whenever
\* OPENAI_API_KEY is set.
C15_SizeCeiling ==
    /\ \A v \in Videos :
        SttStepRan(v) =>
            IF audioDir[v] > MAX_FILE_SIZE_MB
            THEN sttCalls[v] = 0 /\ answers[v].stt = "None" /\ wRet[v] = NoTranscript
            ELSE api_key # "unread" /\ (api_key = "set" => sttCalls[v] >= 1)
    /\ (\A v \in Videos : SttStepRan(v) => audioDir[v] > MAX_FILE_SIZE_MB)
          => api_key = "unread"

\* A batch in which one audio file was rejected for its size and another, at
\* the ceiling, had its request sent.
C15_Witness ==
    /\ mode = "all"
    /\ \E v, w \in Videos :
        /\ SttStepRan(v) /\ audioDir[v] = MAX_FILE_SIZE_MB + 1 /\ sttCalls[v] = 0
        /\ SttStepRan(w) /\ audioDir[w] = MAX_FILE_SIZE_MB /\ sttCalls[w] = 1

\* C15 as stated -- an audio file of 25 MB or less always leads to a request
\* to the speech-to-text service.
C15_AlwaysRequested ==
    \A v \in Videos :
        (SttStepRan(v) /\ audioDir[v] <= MAX_FILE_SIZE_MB) => sttCalls[v] >= 1

\* The speech-to-text step of video v ended on the missing credential.
CredentialFailed(v) ==
    /\ api_key = "unset"
    /\ SttStepRan(v)
    /\ audioDir[v] <= MAX_FILE_SIZE_MB

\* C17 -- a missing OPENAI_API_KEY is fatal: once the speech-to-text step of a
\* video has met it, the error leaves the transcription call: the video is not
\* given an ordinary failed outcome and the call does not go on to return.
C17_MissingKeyFatal ==
    \A v \in Videos :
        CredentialFailed(v) => (wTask[v] # "consumed" /\ pc # "done")

\* The error strings of the failed outcomes the two methods build.
FailureTexts == {"No YouTube transcript available", "Failed to transcribe with Whisper",
                 "Failed to download audio", "Whisper transcription failed"}

\* C16 -- transcribe_video and transcribe_all never raise because of a caption
\* provider error, malformed upstream data, a network failure, a download
\* timeout or a speech-to-text failure: every such failure becomes an outcome
\* with success = False and a non-empty error string, and every remaining item
\* of the batch still gets its outcome.
C16_FailuresBecomeOutcomes ==
    /\ pc # "raised"
    /\ \A k \in 1..Len(results) :
          IF results[k].success
          THEN results[k].transcript # NoTranscript
          ELSE results[k].error \in FailureTexts
    /\ (mode = "single" /\ pc = "done") =>
          /\ ret.video = curVideo
          /\ IF ret.success THEN ret.transcript # NoTranscript
                            ELSE ret.error \in FailureTexts
    /\ (mode = "all" /\ pc = "done") =>
          \A v \in Videos :
              v > start_from =>
                  /\ Cardinality(OutcomesOf(v)) = 1
                  /\ \A k \in OutcomesOf(v) :
                        (~ExpectedSuccess(v)) => ~results[k].success

\* A batch from the first video that has returned although one download failed
\* and one speech-to-text call ended in an exception: both are failed outcomes
\* with their error strings.
C16_Witness ==
    /\ mode = "all" /\ use_whisper /\ pc = "done" /\ start_from = 0
    /\ \E f, g \in Videos :
          /\ answers[f].download = "failed"
          /\ answers[g].stt = "Exception"
          /\ \E k, m \in 1..Len(results) :
                /\ results[k].video = f /\ results[k].error = "Failed to download audio"
                /\ results[m].video = g /\ results[m].error = "Whisper transcription failed"

\* C18 -- download_audio is idempotent: when audio/{video_id}.mp3 exists the
\* call returns that path, launches no subprocess and leaves the file as it
\* is, so a second call after a successful first call launches nothing: at
\* most one subprocess is launched for a video, none for a video whose audio
\* file was there when the process started, and that file is still as it was.
C18_DownloadIdempotent ==
    \A v \in Videos :
        /\ dlCalls[v] <= 1
        /\ v \in DOMAIN audio0 =>
              (dlCalls[v] = 0 /\ AudioExists(v) /\ audioDir[v] = audio0[v])
        /\ answers[v].download = "ok" => (AudioExists(v) /\ dlCalls[v] = 1)
        /\ (MayStartWhisper(v) /\ AudioExists(v)) =>
              \A ans \in DownloadAnswers, size \in AudioSizes :
                  LET d == download_audio(v, ans, size) IN
                  d.path /\ ~d.launched /\ d.dir = audioDir

\* The second call: a video whose audio the download pool fetched has had
\* download_audio called again by transcribe_with_whisper, and one subprocess
\* was launched for it in all.
C18_Witness ==
    /\ mode = "all"
    /\ \E v \in Videos :
          /\ dlTask[v] = "consumed"
          /\ answers[v].download = "ok"
          /\ SttStepRan(v)
          /\ dlCalls[v] = 1

\* What the subprocess does when the download does not succeed.
SoftFailures == {"nonzero_exit", "TimeoutExpired", "no_file"}

\* C19 -- download_audio soft failure: a nonzero exit code, the expiry of the
\* 300-second timeout, or a zero exit code with no output file each make the
\* call return None; the call never raises, and it returns a path only when
\* the output file exists.
C19_DownloadSoftFailure ==
    /\ \A v \in Videos :
          (dlTask[v] = "running" \/ MayStartWhisper(v)) =>
              \A ans \in DownloadAnswers, size \in AudioSizes :
                  LET d == download_audio(v, ans, size) IN
                  /\ ~d.raised
                  /\ d.path => v \in DOMAIN d.dir
                  /\ (~AudioExists(v) /\ ans \in SoftFailures) =>
                        (~d.path /\ d.dir = audioDir)
    /\ \A v \in Videos :
          dlTask[v] \in {"finished", "consumed"} =>
              /\ dlRet[v] => AudioExists(v)
              /\ answers[v].download = "failed" => (~dlRet[v] /\ ~AudioExists(v))
    /\ pc # "raised"

\* A download of the pool has ended without a file: its future holds None.
C19_Witness ==
    /\ mode = "all"
    /\ \E v \in Videos :
          /\ dlTask[v] = "finished"
          /\ dlCalls[v] = 1
          /\ answers[v].download = "failed"
          /\ ~dlRet[v]
          /\ ~AudioExists(v)

\* C20 -- exit code of the youtube-transcriber CLI: a run that reached the
\* transcription step exits with a non-zero code if and only if at least one
\* returned outcome has success = False; an item left needing speech-to-text
\* counts as a failure.
C20_ExitCode ==
    exit_code # <<>> =>
        /\ pc = "done"
        /\ exit_code[1] \in {0, 1}
        /\ exit_code[1] # 0 <=> \E k \in 1..Len(results) : ~results[k].success

\* The process has exited non-zero after a run without Whisper whose only
\* failures are items left needing speech-to-text, next to a success.
C20_Witness ==
    /\ exit_code = <<1>>
    /\ ~use_whisper
    /\ \E k \in 1..Len(results) : results[k].success
    /\ \E k \in 1..Len(results) : ~results[k].success
    /\ \A k \in 1..Len(results) : ~results[k].success => results[k].needs_whisper

\* C11 -- extract_startups: whenever extraction_cache/{video_id}.json exists
\* for the item, also when it holds the empty list, the call returns the
\* decoded cached list and makes no request to the remote model.
C11_CacheHitNoRemoteCall ==
    mode = "ex_all" =>
        \A v \in DOMAIN cache0 :
            /\ exCalls[v] = 0
            /\ exRet[v].returned => exRet[v].value = cache0[v]

\* What the per-item extractions of the first n items returned, one after the
\* other.
RECURSIVE Extracted(_)
Extracted(n) == IF n = 0 THEN <<>> ELSE Extracted(n - 1) \o exRet[n].value

\* A sweep is running or over: extract_all of the scraper, or the per-video
\* loop of the fireship analyzer.
InSweep == mode \in {"ex_all", "fs_all"}

\* C12 -- extraction sweep isolation: when the remote model call for one item
\* raises, the per-item extraction yields an empty result for that item and
\* writes no cache entry for it, the sweep goes on and extracts every
\* remaining item, and the sweep itself never raises.
C12_SweepIsolation ==
    InSweep =>
        /\ pc # "raised"
        /\ \A v \in Videos :
              exAnswer[v] = "raised" =>
                  /\ exRet[v] = Returned(<<>>)
                  /\ v \in DOMAIN extraction_cache =>
                        (v \in DOMAIN cache0 /\ extraction_cache[v] = cache0[v])
                  /\ v \notin Range(analyses)
        /\ all_startups = (IF mode = "ex_all" THEN Extracted(i) ELSE <<>>)
        /\ analyses = (IF mode = "fs_all" THEN Extracted(i) ELSE <<>>)
        /\ pc = "done" =>
              /\ i = NumVideos
              /\ \A v \in Videos : exRet[v].returned

\* extract_all has returned; the remote call of one item raised and a later
\* item was extracted from the model's answer, with startups found.
C12_Witness ==
    /\ mode = "ex_all"
    /\ pc = "done"
    /\ \E v, w \in Videos :
          /\ v < w
          /\ exAnswer[v] = "raised"
          /\ exAnswer[w] = "content"
          /\ exRet[w].value # <<>>
          /\ w \in DOMAIN extraction_cache /\ w \notin DOMAIN cache0

\* C13 -- tolerant parsing in extract_startups: for the same list of records,
\* a response that presents it as a bare JSON list, as an object holding it
\* under "startups", or as either of these inside a fenced code block yields
\* the same returned records.
C13_TolerantParsing ==
    \A p, q \in DOMAIN exTried : exTried[p].value = exTried[q].value

\* A record that passes shape validation: an object with a non-empty name and
\* fields of the declared types.
WellFormed(rec) == rec.shape = "object" /\ rec.name \notin {"None", ""} /\ rec.typed

\* The startups of the well-formed records among the first n, in their order,
\* each with the position it has in the list.
RECURSIVE WellFormedStartups(_, _)
WellFormedStartups(records, n) ==
    IF n = 0 THEN <<>>
    ELSE IF WellFormed(records[n])
         THEN Append(WellFormedStartups(records, n - 1),
                     Startup(ProbeVideo, records[n].name, n - 1))
         ELSE WellFormedStartups(records, n - 1)

\* C14 -- bad-record isolation in extract_startups: of a parsed response with
\* several records, every record that fails shape validation (missing or empty
\* name, not an object, a field of the wrong type) is dropped, and every
\* well-formed record is returned and cached, in the original relative order.
C14_BadRecordIsolation ==
    \A p \in DOMAIN exTried \cap {"list", "object"} :
        /\ exTried[p].value = WellFormedStartups(exRecords, Len(exRecords))
        /\ exTried[p].cached
        /\ exTried[p].entry = exTried[p].value

\* The transcripts save_transcript has written, with their segment lists.
PersistedWithSegments ==
    {built[p].file[1] : p \in {q \in DOMAIN built :
                                 /\ built[q].file # <<>>
                                 /\ built[q].file[1].segments # <<>>}}

\* C21 -- segment ordering: every transcript persisted by the Transcriber, on
\* the native-caption path and on the speech-to-text path, that has segments
\* has them in non-decreasing order of start, whatever order the service
\* returned them in.
C21_SegmentOrdering ==
    \A t \in PersistedWithSegments :
        LET segments == t.segments[1] IN
        \A k \in 1..(Len(segments) - 1) : segments[k].start <= segments[k + 1].start

\* C22 -- text/segment consistency: on both paths the text of a transcript
\* that has segments is its segment texts joined in order by single spaces.
C22_TextIsJoinedSegments ==
    \A t \in PersistedWithSegments :
        t.text = Join(TextsOf(t.segments[1]), " ")

\* The video has a caption track in this language.
HasTrack(tl, code) == code \in tl.manual \cup tl.generated

FallbackStarted(v) ==
    \/ dlCalls[v] > 0 \/ sttCalls[v] > 0
    \/ dlTask[v] # "none" \/ wTask[v] # "none"

\* C23 -- native captions before speech-to-text: an audio download or a
\* speech-to-text request is issued for an item only after its cache lookup
\* missed and its native-caption attempt returned nothing, and only when
\* use_whisper is true; in transcribe_all no download starts before the first
\* pass has gone through every item of the run (a cache hit, or a
\* native-caption attempt).
C23_CaptionsBeforeStt ==
    /\ \A v \in Videos :
          FallbackStarted(v) =>
              /\ v \notin DOMAIN transcripts0
              /\ capCalls[v] = 1
              /\ answers[v].captions = "absent"
              /\ IF mode = "all" THEN use_whisper ELSE tvUseWhisper
    /\ (mode = "all" /\ \E v \in Videos : FallbackStarted(v)) =>
          /\ pc \notin {"tv_load", "tv_fetch", "tv_save", "tv_saving", "tv_ret", "p1_end"}
          /\ \A w \in videos_to_process(start_from) :
                w \in DOMAIN transcripts0 \/ capCalls[w] = 1

\* A batch in which one item was found in the cache, and a download was
\* started for another after its native-caption attempt returned nothing.
C23_Witness ==
    /\ mode = "all" /\ pc = "p2_dl"
    /\ \E v, w \in videos_to_process(start_from) :
          /\ w \in DOMAIN transcripts0 /\ capCalls[w] = 0
          /\ dlTask[v] = "running" /\ dlCalls[v] = 1 /\ capCalls[v] = 1

\* The downloads and the speech-to-text calls that occupy a pool worker.
DownloadsInFlight == {v \in Videos : dlTask[v] = "running"}
SttInFlight == {v \in Videos : wTask[v] \in {"running", "save", "saving"}}

\* C24 -- bounded two-stage second pass of transcribe_all: at most max_workers
\* audio downloads and at most max_workers speech-to-text requests are in
\* flight at any moment, no speech-to-text request starts before every audio
\* download of the run has finished, and a speech-to-text request is issued
\* only for items whose download returned a path.
C24_BoundedTwoStage ==
    mode = "all" =>
        /\ Cardinality(DownloadsInFlight) <= max_workers
        /\ Cardinality(SttInFlight) <= max_workers
        /\ \A v \in Videos :
              (wTask[v] # "none" \/ sttCalls[v] > 0) =>
                  /\ dlTask[v] = "consumed" /\ dlRet[v]
                  /\ \A w \in Range(needs_whisper) : dlTask[w] = "consumed"

\* More speech-to-text calls are submitted than there are workers: max_workers
\* of them are in flight and one waits, and the download of another item of
\* the run had failed.
C24_Witness ==
    /\ mode = "all" /\ pc = "p2_stt"
    /\ Cardinality(SttInFlight) = max_workers
    /\ \E v \in Videos : wTask[v] = "queued"
    /\ \E w \in Range(needs_whisper) : ~dlRet[w] /\ wTask[w] = "none"

\* No element occurs twice in the list.
NoDuplicates(list) ==
    \A k, m \in 1..Len(list) : list[k] = list[m] => k = m

\* C25 -- no two workers on the same item: in a batch run over items with
\* unique identifiers each item is submitted to the download pool at most
\* once and to the transcription pool at most once, and at no time is the
\* same video_id downloaded and transcribed concurrently, or its transcript
\* file written by two threads.
C25_OneWorkerPerItem ==
    mode = "all" =>
        /\ NoDuplicates(needs_whisper)
        /\ NoDuplicates(audio_files)
        /\ \A v \in Videos :
              /\ ~(v \in DownloadsInFlight /\ v \in SttInFlight)
              /\ ~(dlTask[v] \in {"queued", "running"} /\ wTask[v] # "none")
              /\ ~(pc \in {"tv_save", "tv_saving"} /\ cur.video_id = v
                     /\ wTask[v] \in {"save", "saving"})
              /\ v \in Range(audio_files) => v \in Range(needs_whisper)

\* Two workers of the transcription pool are writing the transcript files of
\* two different items at the same time.
C25_Witness ==
    /\ mode = "all" /\ pc = "p2_stt"
    /\ \E v, w \in Videos :
          /\ v # w
          /\ wTask[v] = "saving" /\ wTask[w] = "saving"
          /\ transcriptsDir[v] = TruncatedJson /\ transcriptsDir[w] = TruncatedJson

\* C29 -- no automatic retry: within one batch run at most one native-caption
\* attempt, at most one invocation of the external audio tool and at most one
\* speech-to-text request are made for each item, whatever the outcome of
\* each.
C29_NoRetry ==
    \A v \in Videos :
        /\ capCalls[v] <= 1 /\ dlCalls[v] <= 1 /\ sttCalls[v] <= 1
        /\ (mode = "all" /\ pc = "done") =>
              /\ answers[v].download = "failed" => (dlCalls[v] = 1 /\ sttCalls[v] = 0)
              /\ answers[v].stt = "Exception" => sttCalls[v] <= 1

\* A batch that has returned: the download of one item failed and the
\* speech-to-text request of another ended in an exception, and each was
\* made once.
C29_Witness ==
    /\ mode = "all" /\ pc = "done" /\ api_key = "set"
    /\ \E v, w \in Videos :
          /\ answers[v].download = "failed" /\ dlCalls[v] = 1 /\ capCalls[v] = 1
          /\ answers[w].stt = "Exception" /\ sttCalls[w] = 1 /\ dlCalls[w] = 1

\* save_transcript is about to open the transcript file of v, or has it open.
WriteDue(v) ==
    \/ pc = "tv_save" /\ cur.video_id = v
    \/ wTask[v] = "save"

Writing(v) ==
    \/ pc = "tv_saving" /\ cur.video_id = v
    \/ wTask[v] = "saving"

\* C30 -- write-once transcripts: within a run of transcribe_video or
\* transcribe_all the transcript file of an item is written at most once (a
\* write begins only when the item has no file), and a transcript file that
\* exists when the run starts is never overwritten or modified.
C30_WriteOnce ==
    \A v \in Videos :
        /\ v \in DOMAIN transcripts0 =>
              /\ TranscriptExists(v) /\ transcriptsDir[v] = transcripts0[v]
              /\ ~WriteDue(v) /\ ~Writing(v)
        /\ WriteDue(v) => ~TranscriptExists(v)
        /\ Writing(v) => transcriptsDir[v] = TruncatedJson
        /\ ~(pc \in {"tv_save", "tv_saving"} /\ cur.video_id = v
               /\ wTask[v] \in {"save", "saving"})
        /\ (TranscriptExists(v) /\ v \notin DOMAIN transcripts0 /\ ~Writing(v)) =>
              transcriptsDir[v] =
                  (IF answers[v].captions = "track" THEN Transcript(v, "youtube")
                                                    ELSE Transcript(v, "whisper"))

\* A batch that has returned: one transcript file was there at the start and
\* is as it was, one was written from native captions and one from a
\* speech-to-text response.
C30_Witness ==
    /\ mode = "all" /\ pc = "done" /\ start_from = 0
    /\ \E u, v, w \in Videos :
          /\ u \in DOMAIN transcripts0 /\ transcriptsDir[u] = transcripts0[u]
          /\ v \notin DOMAIN transcripts0 /\ TranscriptExists(v)
          /\ transcriptsDir[v] = Transcript(v, "youtube")
          /\ w \notin DOMAIN transcripts0 /\ TranscriptExists(w)
          /\ transcriptsDir[w] = Transcript(w, "whisper")

\* _parse_startup returns for the record, a Startup or None, without raising.
Parses(rec) == rec.shape = "object" /\ (rec.typed \/ rec.name \in {"None", ""})

\* C28 -- persisted extraction results are well-formed and traceable: every
\* record written to extraction_cache/{video_id}.json has a non-empty name
\* and the video_id the file is keyed by, and the file is written only after
\* the whole response was parsed without an error: it holds the startups of
\* all the records of the response, never those of a part of them.
C28_CachedExtractionWellFormed ==
    \A p \in DOMAIN exTried :
        IF exTried[p].cached
        THEN /\ p \in {"list", "object"}
             /\ \A k \in 1..Len(exRecords) : Parses(exRecords[k])
             /\ exTried[p].entry = WellFormedStartups(exRecords, Len(exRecords))
             /\ exTried[p].entry = exTried[p].value
             /\ \A k \in 1..Len(exTried[p].entry) :
                   /\ exTried[p].entry[k].name \notin {"", "None"}
                   /\ exTried[p].entry[k].video_id = ProbeVideo
        ELSE /\ exTried[p].entry = <<>>
             /\ exTried[p].value = <<>>
             /\ \/ p \in {"fenced_list", "fenced_object"}
                \/ \E k \in 1..Len(exRecords) : ~Parses(exRecords[k])

\* A response of two records, one without a name, was parsed and its one
\* startup cached; the same records inside a code fence left no cache file.
C28_Witness ==
    /\ Len(exRecords) = 2
    /\ \E k \in 1..2 : exRecords[k].name \in {"", "None"}
    /\ "list" \in DOMAIN exTried /\ "fenced_list" \in DOMAIN exTried
    /\ exTried["list"].cached /\ Len(exTried["list"].entry) = 1
    /\ ~exTried["fenced_list"].cached

\* C26 -- in a run of fireship main, generate_guidelines is requested at most
\* once; a run that is over requested it once when it had at least one
\* analysis (made in the loop or loaded from the cache file) and never when it
\* had none; and the request is made only after the loop over the transcripts
\* has ended, whatever the number of transcripts.
C26_AggregateOnce ==
    (mode \in {"fs_main", "fs_main_skip_individual"}) =>
        /\ guidelineCalls <= 1
        /\ pc \in {"fs_loop", "fs_aggregate"} => guidelineCalls = 0
        /\ pc = "done" => guidelineCalls = (IF analyses = <<>> THEN 0 ELSE 1)
        /\ pc = "raised" => (guidelineCalls = 1 <=> analyses # <<>>)
        /\ guidelineCalls = 1 =>
              \/ i = NumVideos /\ analyses_cache = <<analyses>>
              \/ /\ mode = "fs_main_skip_individual"
                 /\ \A v \in Videos : exCalls[v] = 0
                 /\ analyses_cache = <<analyses>>

\* A run of two transcripts made two analyses and then one request; and the
\* other runs differ only in where the analyses came from.
C26_Witness ==
    /\ mode = "fs_main"
    /\ pc = "done"
    /\ Len(analyses) = 2
    /\ exCalls[NumVideos] = 1 /\ exCalls[NumVideos - 1] = 1
    /\ guidelineCalls = 1

\* C31 -- lazy speech-to-text client: for one Transcriber the client is
\* constructed at most once, and every use gets that same client, also when
\* several pool workers call _get_openai_client for the first time
\* concurrently.
C31_ClientBuiltOnce ==
    /\ clientsBuilt <= 1
    /\ Cardinality(clientsUsed) <= 1

\* The items of the scraper run that are not in the transcripts dict: those
\* that failed in this run.
FailedInRun == {v \in Range(to_process) : ~DictHas(transcripts, v)}

\* The checkpoint file lists exactly the failures of the run, each once, with
\* the position of the item in the original list, its id and a message.
CheckpointListsFailures ==
    /\ progressFile # <<>>
    /\ LET failed == progressFile[1].failed IN
        /\ \A v \in FailedInRun :
              Cardinality({k \in 1..Len(failed) : failed[k].video_id = v}) = 1
        /\ \A k \in 1..Len(failed) :
              /\ failed[k].video_id \in FailedInRun
              /\ failed[k].index = failed[k].video_id - 1
              /\ failed[k].error \notin {"", "None"}

\* C32 -- final checkpoint accuracy in the scraper: when transcribe_all (with
\* or without Whisper) returns after processing at least one uncached item,
\* transcription_progress.json exists and its failed list holds exactly one
\* entry for every item that failed in this run, with the item's position in
\* the original list, its identifier and error message.
C32_FinalCheckpoint ==
    (mode = "sc_all" /\ pc = "done" /\ to_process # <<>>) => CheckpointListsFailures

\* transcribe_video has just returned ret for curVideo.
JustReturned ==
    \/ pc = "tv_ret" /\ mode \in {"single", "all"}
    \/ pc = "done" /\ mode = "single"

\* C33 -- a failed resolve leaves the transcript cache without an entry: when
\* transcribe_video has returned success = False for an item, the file
\* transcripts/{video_id}.json does not exist, so the next load_transcript of
\* the item finds nothing and the item is attempted again.
C33_FailedResolveLeavesNoEntry ==
    (JustReturned /\ ~ret.success) =>
        /\ ret.video = curVideo
        /\ ~TranscriptExists(curVideo)
        /\ load_transcript(curVideo) = [raised |-> FALSE, value |-> NoTranscript]

\* A direct call with Whisper has returned a failure after its one
\* speech-to-text request ended in an exception: there is no transcript file.
C33_Witness ==
    /\ mode = "single" /\ pc = "done"
    /\ ~ret.success /\ ret.error = "Failed to transcribe with Whisper"
    /\ sttCalls[curVideo] = 1
    /\ answers[curVideo].stt = "Exception"
    /\ ~TranscriptExists(curVideo)

\* C34 -- segment normalization on the speech-to-text path: the transcript
\* built from a response has one segment per segment of the response, in the
\* order of the response, each with the start and the text of the service
\* segment and duration = end - start; and this is the transcript saved.
C34_SegmentNormalization ==
    \A p \in DOMAIN built :
        p = "whisper" =>
            LET t == built[p].transcript
                service == built[p].returned
                segments == IF t.segments = <<>> THEN <<>> ELSE t.segments[1]
            IN  /\ Len(segments) = Len(service)
                /\ \A k \in 1..Len(service) :
                      /\ segments[k].start = service[k].start
                      /\ segments[k].duration = service[k].end - service[k].start
                      /\ segments[k].text = service[k].text
                /\ built[p].file = <<t>>

\* A response of two segments of different length, the later one first: the
\* transcript keeps the order and has the two durations.
C34_Witness ==
    /\ "whisper" \in DOMAIN built
    /\ LET service == built["whisper"].returned
           segments == built["whisper"].transcript.segments
       IN  /\ Len(service) = 2
           /\ service[1].start > service[2].start
           /\ segments # <<>>
           /\ segments[1][1].duration = 1
           /\ segments[1][2].duration = 2

\* The audio files cleanup_audio is to delete: with keep_failed those of the
\* videos that had a persisted transcript, all of them without it.
ToDelete(keep_failed) ==
    {v \in DOMAIN audio0 :
        ~keep_failed \/ (v \in DOMAIN transcripts0 /\ transcripts0[v] # TruncatedJson)}

\* After cleanup_audio exactly those files are gone, the other audio files and
\* all transcript files are as they were.
CleanupFrame ==
    /\ DOMAIN audioDir = DOMAIN audio0 \ ToDelete(cleaned[1].keep_failed)
    /\ \A v \in DOMAIN audioDir : audioDir[v] = audio0[v]
    /\ transcriptsDir = transcripts0

\* C35 (as stated) -- cleanup_audio of either Transcriber deletes exactly the
\* audio files to delete, changes nothing else, and returns the number of
\* files deleted.
C35_CleanupAudio ==
    cleaned # <<>> =>
        /\ CleanupFrame
        /\ cleaned[1].returned = <<Cardinality(ToDelete(cleaned[1].keep_failed))>>

\* C35 (amended) -- cleanup_audio of either Transcriber deletes exactly the
\* audio files to delete and changes nothing else; that of the
\* youtube-transcriber returns the number of files deleted, that of the
\* scraper returns None.
C35_CleanupAudioAmended ==
    cleaned # <<>> =>
        /\ CleanupFrame
        /\ cleaned[1].returned =
              IF cleaned[1].transcriber = "youtube-transcriber"
              THEN <<Cardinality(ToDelete(cleaned[1].keep_failed))>>
              ELSE <<>>

\* keep_failed: the audio of a transcribed video was deleted, the audio of a
\* video whose transcript file is cut short and that of a video without a
\* transcript were kept, and 1 was returned.
C35_Witness ==
    /\ cleaned # <<>>
    /\ cleaned[1].keep_failed
    /\ cleaned[1].returned = <<1>>
    /\ \E u, v, w \in DOMAIN audio0 :
          /\ u \notin DOMAIN audioDir /\ u \in DOMAIN transcriptsDir
          /\ v \in DOMAIN audioDir /\ v \in DOMAIN transcriptsDir
          /\ transcriptsDir[v] = TruncatedJson
          /\ w \in DOMAIN audioDir /\ w \notin DOMAIN transcriptsDir

\* C36 -- outcome list completeness of transcribe_all: the list returned has
\* exactly one outcome for every item at a position from start_from on and
\* none for any other item, with and without use_whisper and whatever failed.
C36_OutcomeListComplete ==
    (mode = "all" /\ pc = "done") =>
        /\ Len(results) = NumVideos - start_from
        /\ \A k \in 1..Len(results) : results[k].video \in videos_to_process(start_from)
        /\ \A v \in Videos :
              Cardinality(OutcomesOf(v)) =
                  IF v \in videos_to_process(start_from) THEN 1 ELSE 0

\* A run with Whisper from the second item on has returned: one item was
\* cached, the download of another failed, and each has its one outcome.
C36_Witness ==
    /\ mode = "all" /\ pc = "done" /\ use_whisper /\ start_from = 1
    /\ Len(results) = NumVideos - 1
    /\ \E u, v \in videos_to_process(start_from) :
          /\ u \in DOMAIN transcripts0
          /\ answers[v].download = "failed"
          /\ Cardinality(OutcomesOf(u)) = 1 /\ Cardinality(OutcomesOf(v)) = 1

\* The checkpoints there are: the one in transcription_progress.json and the
\* ones _save_progress has built and is writing.
Checkpoints == Range(progressFile) \cup {saving[t] : t \in DOMAIN saving}

\* C37 -- checkpoint internal consistency in the scraper: in every checkpoint
\* of _save_progress completed_count is the number of completed_ids,
\* completed_ids has no duplicates, no identifier is both in completed_ids and
\* in the failed list, and every identifier of completed_ids has a persisted
\* transcript file.
C37_CheckpointConsistent ==
    \A c \in Checkpoints :
        /\ c.completed_count = Len(c.completed_ids)
        /\ NoDuplicates(c.completed_ids)
        /\ \A k \in 1..Len(c.failed) : c.failed[k].video_id \notin Range(c.completed_ids)
        /\ \A v \in Range(c.completed_ids) : Persisted(v)

\* A checkpoint written during the second pass that has a transcript made in
\* this run among its completed ids and one failure.
C37_Witness ==
    /\ mode = "sc_all" /\ use_whisper /\ pc = "sc_p2_stt"
    /\ progressFile # <<>>
    /\ Len(progressFile[1].failed) = 1
    /\ \E v \in Range(progressFile[1].completed_ids) :
          v \notin DOMAIN transcripts0 /\ answers[v].stt = "response"

\* transcribe_all has returned, every submitted download and transcription
\* task has been yielded to the caller and no pool worker is running.
BatchReturned ==
    /\ mode = "all" /\ pc = "done"
    /\ \A v \in Videos :
          /\ dlTask[v] \in {"none", "consumed"}
          /\ wTask[v] \in {"none", "consumed"}

\* C38 -- termination: when every remote operation returns or raises in
\* finite time (the download within its timeout), a call of transcribe_all
\* eventually returns, with every submitted download and transcription task
\* finished and no worker still running, for every item list and max_workers.
C38_Termination == (mode = "all") ~> BatchReturned

\* A run with the largest pool has returned after both pools worked: one
\* download failed, one speech-to-text call was answered.
C38_Witness ==
    /\ BatchReturned
    /\ max_workers = MaxWorkers
    /\ \E v, w \in Videos :
          /\ dlTask[v] = "consumed" /\ ~dlRet[v]
          /\ wTask[w] = "consumed" /\ answers[w].stt = "response"

====
